---- MODULE Spec2Model ----
(***************************************************************************)
(* A model of the dena tree-walking interpreter: the runtime values of     *)
(* expr.rs, the chained Environment of environment.rs, the static          *)
(* Resolver of resolver.rs, the Interpreter of interpreter.rs and the      *)
(* run / run_prompt driver of main.rs.                                     *)
(*                                                                         *)
(* Frames live in a heap (a sequence); an Rc<RefCell<Environment>> is the  *)
(* index of its frame, and enclosing = 0 stands for None.  Expression      *)
(* evaluation and statement execution are the recursive operators          *)
(* Evaluate and Interpret, which thread the machine state (heap, the       *)
(* interpreter's locals table, the printed output and a history of the     *)
(* evaluation events) through the calls exactly in the order of the Rust   *)
(* code.  A Result is a record whose field r is "ok", "err" (an Err(..)    *)
(* travelling through `?`), "panic" (panic!, expect, unwrap: the process   *)
(* aborts) or "diverge" (the evaluation budget of the model ran out).      *)
(***************************************************************************)
EXTENDS Integers, Sequences, FiniteSets, TLC

VARIABLES
    interpreter,  \* the machine state of the shared top-level Interpreter
    top,          \* the top-level Interpreter's own environment pointer, signal slot, locals
    phase,        \* where the driver stands: "prompt", "parsed", "resolved", "aborted", ...
    suite,        \* which catalogue of source texts the lines are drawn from
    line,         \* the line being run: its name and its statements (the parser's output)
    pc,           \* index of the next top-level statement of `line`
    lines,        \* how many lines have been read so far
    result,       \* what the last `run` returned
    probe         \* the last application of a pure operation (Environment, operators)

vars == <<interpreter, top, phase, suite, line, pc, lines, result, probe>>

----------------------------------------------------------------------------
(* Bounds of the model *)

\* lines read by run_prompt in one behaviour
MaxLines == 2
\* function calls plus loop iterations one `run` may perform before the model gives up
MaxFuel == 12
\* distinct readings of the system clock
MaxClock == 2
\* frames the Environment probe may allocate
MaxFrames == 3
\* calls of one closure in a source text
MaxCalls == 3
\* largest argument of the recursive functions of the source texts
MaxFib == 4

\* tokens before Eof of the arbitrary sequences given to the parser
MaxTokens == 4

----------------------------------------------------------------------------
(* expr.rs: LiteralValue *)

Number(x) == [t |-> "Number", n |-> x]

\* a string is the sequence of its character codes
StringValue(s) == [t |-> "String", s |-> s]

True == [t |-> "True"]

False == [t |-> "False"]

Nil == [t |-> "Nil"]

Callable(name, arity, fun) == [t |-> "Callable", name |-> name, arity |-> arity, fun |-> fun]

\* Option<T>: None is the empty sequence, Some(x) the one-element sequence
None == <<>>

Some(x) == <<x>>

\* impl PartialEq for LiteralValue
ValueEq(x, y) ==
    CASE x.t = "Number" /\ y.t = "Number" -> x.n = y.n
      [] x.t = "Callable" /\ y.t = "Callable" -> x.name = y.name /\ x.arity = y.arity
      [] x.t = "String" /\ y.t = "String" -> x.s = y.s
      [] x.t = "True" /\ y.t = "True" -> TRUE
      [] x.t = "False" /\ y.t = "False" -> TRUE
      [] x.t = "Nil" /\ y.t = "Nil" -> TRUE
      [] OTHER -> FALSE

\* LiteralValue::to_string: the text println! writes for a value
ValueToString(v) ==
    CASE v.t = "Number" -> [text |-> "number", n |-> v.n]
      [] v.t = "String" -> [text |-> "quoted", s |-> v.s]
      [] v.t = "True" -> [text |-> "true"]
      [] v.t = "False" -> [text |-> "false"]
      [] v.t = "Nil" -> [text |-> "nil"]
      [] v.t = "Callable" -> [text |-> "callable", name |-> v.name, arity |-> v.arity]

\* LiteralValue::to_type
ToType(v) ==
    CASE v.t = "Number" -> "Number"
      [] v.t = "String" -> "String"
      [] v.t = "True" -> "Boolean"
      [] v.t = "False" -> "Boolean"
      [] v.t = "Nil" -> "nil"
      [] v.t = "Callable" -> "Callable"

\* LiteralValue::from_bool
FromBool(b) == IF b THEN True ELSE False

\* LiteralValue::is_falsy; "panic" stands for the panic! on a Callable
IsFalsy(v) ==
    CASE v.t = "Number" -> IF v.n = 0 THEN True ELSE False
      [] v.t = "String" -> IF Len(v.s) = 0 THEN True ELSE False
      [] v.t = "True" -> False
      [] v.t = "False" -> True
      [] v.t = "Nil" -> True
      [] v.t = "Callable" -> [t |-> "panic"]

\* LiteralValue::is_truthy; "panic" stands for the panic! on a Callable
IsTruthy(v) ==
    CASE v.t = "Number" -> IF v.n = 0 THEN False ELSE True
      [] v.t = "String" -> IF Len(v.s) = 0 THEN False ELSE True
      [] v.t = "True" -> True
      [] v.t = "False" -> False
      [] v.t = "Nil" -> False
      [] v.t = "Callable" -> [t |-> "panic"]

----------------------------------------------------------------------------
(* environment.rs *)

\* get_globals: the one native, clock/0
GetGlobals == "clock" :> Callable("clock", 0, [kind |-> "native"])

\* Environment::new: every new frame starts from get_globals(), with no parent
NewEnvironment == [values |-> GetGlobals, enclosing |-> 0]

\* HashMap::get(name).cloned()
MapGet(values, name) ==
    IF name \in DOMAIN values THEN Some(values[name]) ELSE None

\* HashMap::insert(name, value)
MapInsert(values, name, value) == (name :> value) @@ values

RECURSIVE Nearest(_, _, _)
\* the nearest frame from f up that binds name; f itself when none does
Nearest(heap, f, name) ==
    IF name \in DOMAIN heap[f].values \/ heap[f].enclosing = 0 THEN f
    ELSE Nearest(heap, heap[f].enclosing, name)

\* a define that rebinds the nearest enclosing binding of the name when there is one
\* below the global frame, instead of binding in frame f
DefineInNearest(heap, f, name, value) ==
    LET g == IF heap[f].enclosing = 0 THEN f ELSE Nearest(heap, heap[f].enclosing, name)
        h == IF name \in DOMAIN heap[g].values THEN g ELSE f
    IN  [heap EXCEPT ![h].values = MapInsert(@, name, value)]

\* Environment::define on frame f of the heap
Define(heap, f, name, value) ==
    [heap EXCEPT ![f].values = MapInsert(@, name, value)]

RECURSIVE GetNearest(_, _, _, _)
\* a get that, without a distance, reads the nearest frame from f up that binds name
GetNearest(heap, f, name, distance) ==
    IF distance = None
    THEN IF heap[f].enclosing = 0 \/ name \in DOMAIN heap[f].values
         THEN [r |-> "ok", v |-> MapGet(heap[f].values, name), frame |-> f]
         ELSE GetNearest(heap, heap[f].enclosing, name, distance)
    ELSE IF distance[1] = 0
         THEN [r |-> "ok", v |-> MapGet(heap[f].values, name), frame |-> f]
         ELSE IF heap[f].enclosing = 0
              THEN [r |-> "panic", v |-> None, frame |-> 0]
              ELSE GetNearest(heap, heap[f].enclosing, name, Some(distance[1] - 1))

RECURSIVE GetSearching(_, _, _, _)
\* a get that, with a distance, goes on to the frames above the addressed one when
\* the addressed frame does not bind the name
GetSearching(heap, f, name, distance) ==
    IF distance = None
    THEN IF heap[f].enclosing = 0
         THEN [r |-> "ok", v |-> MapGet(heap[f].values, name), frame |-> f]
         ELSE GetSearching(heap, heap[f].enclosing, name, distance)
    ELSE IF distance[1] = 0
         THEN IF name \in DOMAIN heap[f].values \/ heap[f].enclosing = 0
              THEN [r |-> "ok", v |-> MapGet(heap[f].values, name), frame |-> f]
              ELSE GetSearching(heap, heap[f].enclosing, name, distance)
         ELSE IF heap[f].enclosing = 0
              THEN [r |-> "panic", v |-> None, frame |-> 0]
              ELSE GetSearching(heap, heap[f].enclosing, name, Some(distance[1] - 1))

RECURSIVE Get(_, _, _, _)
\* Environment::get on frame f; `frame` is the frame whose bindings were read
Get(heap, f, name, distance) ==
    IF distance = None
    THEN IF heap[f].enclosing = 0
         THEN [r |-> "ok", v |-> MapGet(heap[f].values, name), frame |-> f]
         ELSE Get(heap, heap[f].enclosing, name, distance)
    ELSE IF distance[1] = 0
         THEN [r |-> "ok", v |-> MapGet(heap[f].values, name), frame |-> f]
         ELSE IF heap[f].enclosing = 0
              THEN [r |-> "panic", v |-> None, frame |-> 0]
              ELSE Get(heap, heap[f].enclosing, name, Some(distance[1] - 1))

RECURSIVE AssignNearest(_, _, _, _, _)
\* an assign that, without a distance, writes the nearest frame from f up that binds
\* the name, the root when none does
AssignNearest(heap, f, name, value, distance) ==
    IF distance = None
    THEN IF heap[f].enclosing # 0 /\ name \notin DOMAIN heap[f].values
         THEN AssignNearest(heap, heap[f].enclosing, name, value, distance)
         ELSE [r |-> "ok", heap |-> [heap EXCEPT ![f].values = MapInsert(@, name, value)],
               b |-> (name \in DOMAIN heap[f].values), frame |-> f]
    ELSE IF distance[1] = 0
         THEN [r |-> "ok", heap |-> [heap EXCEPT ![f].values = MapInsert(@, name, value)],
               b |-> TRUE, frame |-> f]
         ELSE IF heap[f].enclosing = 0
              THEN [r |-> "panic", heap |-> heap, b |-> FALSE, frame |-> 0]
              ELSE LET up == AssignNearest(heap, heap[f].enclosing, name, value,
                                           Some(distance[1] - 1))
                   IN  [up EXCEPT !.b = TRUE]

RECURSIVE Assign(_, _, _, _, _)
\* Environment::assign on frame f; `b` is the bool it returns, `frame` the frame written
Assign(heap, f, name, value, distance) ==
    IF distance = None
    THEN IF heap[f].enclosing # 0
         THEN Assign(heap, heap[f].enclosing, name, value, distance)
         ELSE [r |-> "ok", heap |-> [heap EXCEPT ![f].values = MapInsert(@, name, value)],
               b |-> (name \in DOMAIN heap[f].values), frame |-> f]
    ELSE IF distance[1] = 0
         THEN [r |-> "ok", heap |-> [heap EXCEPT ![f].values = MapInsert(@, name, value)],
               b |-> TRUE, frame |-> f]
         ELSE IF heap[f].enclosing = 0
              THEN [r |-> "panic", heap |-> heap, b |-> FALSE, frame |-> 0]
              ELSE LET up == Assign(heap, heap[f].enclosing, name, value, Some(distance[1] - 1))
                   IN  [up EXCEPT !.b = TRUE]

----------------------------------------------------------------------------
(* expr.rs: Expr, stmt.rs: Stmt.  The parser's output; every expression    *)
(* carries the id the parser gave it.                                      *)

ELiteral(id, value) == [kind |-> "Literal", id |-> id, value |-> value]

EVariable(id, name) == [kind |-> "Variable", id |-> id, name |-> name]

EAssign(id, name, value) == [kind |-> "Assign", id |-> id, name |-> name, value |-> value]

EBinary(id, left, operator, right) ==
    [kind |-> "Binary", id |-> id, left |-> left, operator |-> operator, right |-> right]

ELogical(id, left, operator, right) ==
    [kind |-> "Logical", id |-> id, left |-> left, operator |-> operator, right |-> right]

EUnary(id, operator, right) ==
    [kind |-> "Unary", id |-> id, operator |-> operator, right |-> right]

EGrouping(id, expression) == [kind |-> "Grouping", id |-> id, expression |-> expression]

ECall(id, callee, arguments) ==
    [kind |-> "Call", id |-> id, callee |-> callee, arguments |-> arguments]

EAnonFunction(id, arguments, body) ==
    [kind |-> "AnonFunction", id |-> id, arguments |-> arguments, body |-> body]

SExpression(expression) == [kind |-> "Expression", expression |-> expression]

SPrint(expression) == [kind |-> "Print", expression |-> expression]

SVar(name, initializer) == [kind |-> "Var", name |-> name, initializer |-> initializer]

SBlock(statements) == [kind |-> "Block", statements |-> statements]

\* els is an Option: None or Some(statement)
SIf(predicate, then, els) ==
    [kind |-> "IfStmt", predicate |-> predicate, then |-> then, els |-> els]

SWhile(condition, body) == [kind |-> "WhileStmt", condition |-> condition, body |-> body]

SFunction(name, params, body) ==
    [kind |-> "Function", name |-> name, params |-> params, body |-> body]

\* value is an Option: None or Some(expression)
SReturn(value) == [kind |-> "ReturnStmt", value |-> value]

----------------------------------------------------------------------------
(* The machine state threaded through evaluation, and Result values *)

\* HashMap::new()
EmptyMap == [x \in {} |-> 0]

\* appends one event to the history of the evaluation
Emit(st, e) == [st EXCEPT !.trace = Append(@, e)]

\* Ok(value)
Ok(st, v) == [st |-> st, r |-> "ok", v |-> v, msg |-> [error |-> "none"]]

\* Err(message): the message is kept as the values its format string interpolates
Err(st, msg) == [st |-> st, r |-> "err", v |-> Nil, msg |-> msg]

\* panic!, expect, unwrap: the process aborts
Panic(st, msg) == [st |-> st, r |-> "panic", v |-> Nil, msg |-> msg]

\* the evaluation budget of the model ran out: the code is still running
Diverge(st) == [st |-> st, r |-> "diverge", v |-> Nil, msg |-> [error |-> "none"]]

RECURSIVE StringLess(_, _)
\* String's `<`: lexicographic order on the character codes
StringLess(s1, s2) ==
    IF Len(s2) = 0 THEN FALSE
    ELSE IF Len(s1) = 0 THEN TRUE
    ELSE IF Head(s1) # Head(s2) THEN Head(s1) < Head(s2)
    ELSE StringLess(Tail(s1), Tail(s2))

\* f64 division; the quotient is truncated and x / 0 (inf, NaN) is kept as 0
NumberDiv(x, y) == IF y = 0 THEN 0 ELSE x \div y

NumberOps == {"Plus", "Minus", "Star", "Slash", "Greater", "GreaterEqual", "Less", "LessEqual"}

\* the number a coercing operation takes an operand for
CoercedNumber(value) == IF value.t = "Number" THEN value.n ELSE 0

\* a binary operation that coerces both operands to numbers instead of rejecting the
\* pairings it has no arm for
BinaryOpCoercing(st, left, op, right) ==
    CASE op = "Plus" -> Ok(st, Number(CoercedNumber(left) + CoercedNumber(right)))
      [] op = "Minus" -> Ok(st, Number(CoercedNumber(left) - CoercedNumber(right)))
      [] op = "Star" -> Ok(st, Number(CoercedNumber(left) * CoercedNumber(right)))
      [] op = "Slash" -> Ok(st, Number(NumberDiv(CoercedNumber(left), CoercedNumber(right))))
      [] op = "Greater" -> Ok(st, FromBool(CoercedNumber(left) > CoercedNumber(right)))
      [] op = "GreaterEqual" -> Ok(st, FromBool(CoercedNumber(left) >= CoercedNumber(right)))
      [] op = "Less" -> Ok(st, FromBool(CoercedNumber(left) < CoercedNumber(right)))
      [] op = "LessEqual" -> Ok(st, FromBool(CoercedNumber(left) <= CoercedNumber(right)))
      [] op = "BangEqual" -> Ok(st, FromBool(~ValueEq(left, right)))
      [] OTHER -> Ok(st, FromBool(ValueEq(left, right)))

\* Expr::evaluate, Binary: the match on (left, operator, right), arm after arm
BinaryOp(st, left, op, right) ==
    CASE left.t = "Number" /\ right.t = "Number" /\ op = "Plus" -> Ok(st, Number(left.n + right.n))
      [] left.t = "Number" /\ right.t = "Number" /\ op = "Minus" -> Ok(st, Number(left.n - right.n))
      [] left.t = "Number" /\ right.t = "Number" /\ op = "Star" -> Ok(st, Number(left.n * right.n))
      [] left.t = "Number" /\ right.t = "Number" /\ op = "Slash" ->
            Ok(st, Number(NumberDiv(left.n, right.n)))
      [] left.t = "Number" /\ right.t = "Number" /\ op = "Greater" ->
            Ok(st, FromBool(left.n > right.n))
      [] left.t = "Number" /\ right.t = "Number" /\ op = "GreaterEqual" ->
            Ok(st, FromBool(left.n >= right.n))
      [] left.t = "Number" /\ right.t = "Number" /\ op = "Less" ->
            Ok(st, FromBool(left.n < right.n))
      [] left.t = "Number" /\ right.t = "Number" /\ op = "LessEqual" ->
            Ok(st, FromBool(left.n <= right.n))
      [] OTHER ->
         CASE left.t = "String" /\ right.t = "Number" ->
                Err(st, [error |-> "not defined for string and number", op |-> op])
           [] left.t = "Number" /\ right.t = "String" ->
                Err(st, [error |-> "not defined for string and number", op |-> op])
           [] OTHER ->
              CASE left.t = "String" /\ right.t = "String" /\ op = "Plus" ->
                     Ok(st, StringValue(left.s \o right.s))
                [] OTHER ->
                   CASE op = "BangEqual" -> Ok(st, FromBool(~ValueEq(left, right)))
                     [] op = "EqualEqual" -> Ok(st, FromBool(ValueEq(left, right)))
                     [] left.t = "String" /\ right.t = "String" /\ op = "Greater" ->
                          Ok(st, FromBool(StringLess(right.s, left.s)))
                     [] left.t = "String" /\ right.t = "String" /\ op = "GreaterEqual" ->
                          Ok(st, FromBool(~StringLess(left.s, right.s)))
                     [] left.t = "String" /\ right.t = "String" /\ op = "Less" ->
                          Ok(st, FromBool(StringLess(left.s, right.s)))
                     [] left.t = "String" /\ right.t = "String" /\ op = "LessEqual" ->
                          Ok(st, FromBool(~StringLess(right.s, left.s)))
                     [] OTHER ->
                          Err(st, [error |-> "not implemented for operands", op |-> op,
                                   left |-> ValueToString(left), right |-> ValueToString(right)])

\* Expr::evaluate, Unary: the match on (right, operator)
UnaryOp(st, op, right) ==
    CASE right.t = "Number" /\ op = "Minus" -> Ok(st, Number(0 - right.n))
      [] right.t # "Number" /\ op = "Minus" ->
            Err(st, [error |-> "Minus not implemented", type |-> ToType(right)])
      [] op = "Bang" ->
            IF IsFalsy(right).t = "panic"
            THEN Panic(st, [error |-> "Cannot use Callable as a falsy value"])
            ELSE Ok(st, IsFalsy(right))
      [] OTHER -> Err(st, [error |-> "not a valid unary operator", op |-> op])

----------------------------------------------------------------------------
(* interpreter.rs: struct Interpreter.  `locals` is an Rc: "shared" is the *)
(* table of the top-level interpreter, which the resolver fills, "empty"   *)
(* is a table made by HashMap::new() that nothing ever writes.             *)

\* a for_closure that gives the call a snapshot of the parent frame instead of the
\* parent frame itself
ForClosureSnapshot(st, parent, locals) ==
    [st |-> [st EXCEPT !.heap = @ \o << st.heap[parent],
                                        [NewEnvironment EXCEPT
                                            !.enclosing = Len(st.heap) + 1] >>,
                       !.specials = Append(@, EmptyMap)],
     it |-> [environment |-> Len(st.heap) + 2, specials |-> Len(st.specials) + 1,
             locals |-> locals]]

\* a for_closure that runs every call made from one parent frame in the same frame
ForClosureReuse(st, parent, locals) ==
    LET made == {f \in 1..Len(st.heap) : st.heap[f].enclosing = parent}
    IN  IF made = {}
        THEN [st |-> [st EXCEPT !.heap = Append(@, [NewEnvironment EXCEPT
                                                       !.enclosing = parent]),
                                !.specials = Append(@, EmptyMap)],
              it |-> [environment |-> Len(st.heap) + 1, specials |-> Len(st.specials) + 1,
                      locals |-> locals]]
        ELSE [st |-> [st EXCEPT !.specials = Append(@, EmptyMap)],
              it |-> [environment |-> CHOOSE f \in made : \A g \in made : f <= g,
                      specials |-> Len(st.specials) + 1, locals |-> locals]]

\* a for_closure that hangs the frame of the call under the frame made last (the
\* current frame of a caller that stands in a block or in a function body) instead of
\* the captured frame
ForClosureUnderCaller(st, parent, locals) ==
    [st |-> [st EXCEPT !.heap = Append(@, [NewEnvironment EXCEPT
                                              !.enclosing = Len(st.heap)]),
                       !.specials = Append(@, EmptyMap)],
     it |-> [environment |-> Len(st.heap) + 1, specials |-> Len(st.specials) + 1,
             locals |-> locals]]

\* a for_closure that hands every call the one signal slot of the top-level
\* interpreter instead of a slot of its own
ForClosureOneSlot(st, parent, locals) ==
    [st |-> [st EXCEPT !.heap = Append(@, [NewEnvironment EXCEPT !.enclosing = parent])],
     it |-> [environment |-> Len(st.heap) + 1, specials |-> 1, locals |-> locals]]

\* Interpreter::for_closure: a new frame whose parent is the captured frame,
\* fresh specials (a new Rc, here a new slot of st.specials), the captured locals table
ForClosure(st, parent, locals) ==
    [st |-> [st EXCEPT !.heap = Append(@, [NewEnvironment EXCEPT !.enclosing = parent]),
                       !.specials = Append(@, EmptyMap)],
     it |-> [environment |-> Len(st.heap) + 1, specials |-> Len(st.specials) + 1,
             locals |-> locals]]

\* a for_anon that leaves the new frame without parent
ForAnonUnparented(st, parent) ==
    [st |-> [st EXCEPT !.heap = Append(@, NewEnvironment),
                       !.specials = Append(@, EmptyMap)],
     it |-> [environment |-> Len(st.heap) + 1, specials |-> Len(st.specials) + 1,
             locals |-> "empty"]]

\* Interpreter::for_anon: as for_closure, but with a new, empty locals table
ForAnon(st, parent) ==
    [st |-> [st EXCEPT !.heap = Append(@, [NewEnvironment EXCEPT !.enclosing = parent]),
                       !.specials = Append(@, EmptyMap)],
     it |-> [environment |-> Len(st.heap) + 1, specials |-> Len(st.specials) + 1,
             locals |-> "empty"]]

\* Interpreter::get_distance
GetDistance(st, it, expr) ==
    IF it.locals = "shared" THEN MapGet(st.locals, expr.id) ELSE None

\* Interpreter::resolve
InterpreterResolve(locals, id, steps) == MapInsert(locals, id, steps)

\* Ok(()) of Interpreter::interpret
Done(st, it) == [st |-> st, it |-> it, r |-> "ok", msg |-> [error |-> "none"]]

\* the `?` on a failed evaluation inside Interpreter::interpret
Fail(res, it) == [st |-> res.st, it |-> it, r |-> res.r, msg |-> res.msg]

RECURSIVE DefineAll(_, _, _, _)
\* the loop binding params[i] to args[i] in the frame of the call
DefineAll(heap, f, params, args) ==
    IF args = <<>> THEN heap
    ELSE DefineAll(Define(heap, f, Head(params), Head(args)), f, Tail(params), Tail(args))

\* the result res of Expr::evaluate on expr, with the "ret" event added to the history
Returned(res, expr) ==
    [res EXCEPT !.st = Emit(@, [ev |-> "ret", id |-> expr.id, kind |-> expr.kind,
                                r |-> res.r, v |-> res.v, msg |-> res.msg])]

RECURSIVE Evaluate(_, _, _, _)
RECURSIVE EvaluateCase(_, _, _, _)
RECURSIVE EvaluateArguments(_, _, _, _, _)
RECURSIVE Fun(_, _, _)
RECURSIVE FunBody(_, _, _, _)
RECURSIVE FunBodyNext(_, _, _)
RECURSIVE Interpret(_, _, _)
RECURSIVE InterpretRest(_, _)
RECURSIVE InterpretStmt(_, _, _)
RECURSIVE Evaluated(_, _, _, _)
RECURSIVE IfStmt(_, _, _)
RECURSIVE WhileStmt(_, _, _, _)
RECURSIVE WhileLoop(_, _, _, _, _)
RECURSIVE WhileBody(_, _, _)
RECURSIVE WhileAgain(_, _, _, _)

\* Expr::evaluate; the history gets an "eval" event on entry and a "ret" event on exit
Evaluate(st, environment, distance, expr) ==
    Returned(EvaluateCase(Emit(st, [ev |-> "eval", id |-> expr.id, kind |-> expr.kind]),
                          environment, distance, expr), expr)

\* the value of the left operand of a Logical, with the "logical" event that records
\* it added to the history
LogicalLeft(lhs_value, expr) ==
    IF lhs_value.r # "ok" THEN lhs_value
    ELSE [lhs_value EXCEPT !.st = Emit(@, [ev |-> "logical", id |-> expr.id,
                                           operator |-> expr.operator, lhs |-> lhs_value.v])]

\* a Logical that evaluates its right operand whatever the left operand is
LogicalRightEager(lhs_value, environment, distance, expr) ==
    LET rhs == Evaluate(lhs_value.st, environment, distance, expr.right)
    IN  IF lhs_value.r # "ok" THEN lhs_value
        ELSE IF IsTruthy(lhs_value.v).t = "panic"
        THEN Panic(lhs_value.st, [error |-> "Can not use callable as a truthy value"])
        ELSE IF rhs.r # "ok" THEN rhs
        ELSE IF expr.operator = "Or"
        THEN IF ValueEq(IsTruthy(lhs_value.v), True) THEN Ok(rhs.st, lhs_value.v) ELSE rhs
        ELSE IF ValueEq(IsTruthy(lhs_value.v), False)
             THEN Ok(rhs.st, IsTruthy(lhs_value.v)) ELSE rhs

\* Expr::evaluate, Logical, the arms Or and And after `left.evaluate(..)?`: lhs_true is
\* lhs_value.is_truthy(), which panics on a Callable
LogicalRight(lhs_value, environment, distance, expr) ==
    IF lhs_value.r # "ok" THEN lhs_value
    ELSE IF IsTruthy(lhs_value.v).t = "panic"
    THEN Panic(lhs_value.st, [error |-> "Can not use callable as a truthy value"])
    ELSE IF expr.operator = "Or"
    THEN IF ValueEq(IsTruthy(lhs_value.v), True)
         THEN Ok(lhs_value.st, lhs_value.v)
         ELSE Evaluate(lhs_value.st, environment, distance, expr.right)
    ELSE IF ValueEq(IsTruthy(lhs_value.v), False)
         THEN Ok(lhs_value.st, IsTruthy(lhs_value.v))
         ELSE Evaluate(lhs_value.st, environment, distance, expr.right)

\* Expr::evaluate, Logical: the match on the operator
EvaluateLogical(st, environment, distance, expr) ==
    IF expr.operator \notin {"Or", "And"}
    THEN Err(st, [error |-> "Invalid token in logical expression", op |-> expr.operator])
    ELSE LogicalRight(LogicalLeft(Evaluate(st, environment, distance, expr.left), expr),
                      environment, distance, expr)

\* a check of the number of arguments that lets a call with too few arguments through
ArityExceeded(callable, arguments) == Len(arguments) > callable.arity

\* Expr::evaluate, Call: arguments.len() != arity
ArityMismatch(callable, arguments) == Len(arguments) # callable.arity

\* a Call that evaluates its arguments before it checks their number
EvaluateCallArgumentsFirst(st, environment, distance, expr) ==
    LET callee == Evaluate(st, environment, distance, expr.callee)
        callable == IF callee.r = "ok" /\ callee.v.t = "Callable"
                    THEN [callee EXCEPT !.st = Emit(@, [ev |-> "apply", id |-> expr.id,
                                                         name |-> callee.v.name,
                                                         arity |-> callee.v.arity,
                                                         argc |-> Len(expr.arguments),
                                                         env |-> environment])]
                    ELSE callee
    IN  IF callable.r # "ok" THEN callable
        ELSE IF callable.v.t # "Callable"
        THEN Err(callable.st, [error |-> "is not callable", type |-> ToType(callable.v)])
        ELSE LET arg_vals == EvaluateArguments(callable.st, environment, distance,
                                               expr.arguments, <<>>)
             IN  IF arg_vals.r # "ok" THEN [arg_vals EXCEPT !.v = Nil]
                 ELSE IF ArityMismatch(callable.v, expr.arguments)
                 THEN Err(arg_vals.st, [error |-> "Callable expected arguments but got",
                                        name |-> callable.v.name,
                                        expected |-> callable.v.arity,
                                        got |-> Len(expr.arguments)])
                 ELSE Fun(arg_vals.st, callable.v, arg_vals.v)

\* Expr::evaluate, Call; the history gets an "apply" event when the callee has
\* evaluated to a Callable, before the number of arguments is checked
EvaluateCall(st, environment, distance, expr) ==
    LET callee == Evaluate(st, environment, distance, expr.callee)
        callable == IF callee.r = "ok" /\ callee.v.t = "Callable"
                    THEN [callee EXCEPT !.st = Emit(@, [ev |-> "apply", id |-> expr.id,
                                                         name |-> callee.v.name,
                                                         arity |-> callee.v.arity,
                                                         argc |-> Len(expr.arguments),
                                                         env |-> environment])]
                    ELSE callee
    IN  IF callable.r # "ok" THEN callable
        ELSE IF callable.v.t # "Callable"
        THEN Err(callable.st, [error |-> "is not callable", type |-> ToType(callable.v)])
        ELSE IF ArityMismatch(callable.v, expr.arguments)
        THEN Err(callable.st, [error |-> "Callable expected arguments but got",
                               name |-> callable.v.name, expected |-> callable.v.arity,
                               got |-> Len(expr.arguments)])
        ELSE LET arg_vals == EvaluateArguments(callable.st, environment, distance,
                                               expr.arguments, <<>>)
             IN  IF arg_vals.r # "ok" THEN [arg_vals EXCEPT !.v = Nil]
                 ELSE Fun(arg_vals.st, callable.v, arg_vals.v)

\* the loop of Expr::evaluate, Call, that evaluates the arguments from left to right
EvaluateArguments(st, environment, distance, arguments, arg_vals) ==
    IF arguments = <<>> THEN Ok(st, arg_vals)
    ELSE LET val == Evaluate(st, environment, distance, Head(arguments))
         IN  IF val.r # "ok" THEN val
             ELSE EvaluateArguments(val.st, environment, distance, Tail(arguments),
                                    Append(arg_vals, val.v))

\* Expr::evaluate, the match on the expression
EvaluateCase(st, environment, distance, expr) ==
    CASE expr.kind = "AnonFunction" ->
            Ok(st, Callable("anon_function", Len(expr.arguments),
                            [kind |-> "anon", params |-> expr.arguments, body |-> expr.body,
                             env |-> environment, locals |-> "empty"]))
      [] expr.kind = "Assign" ->
            LET new_value == Evaluate(st, environment, distance, expr.value)
                a == Assign(new_value.st.heap, environment, expr.name, new_value.v, distance)
                st2 == Emit([new_value.st EXCEPT !.heap = a.heap],
                            [ev |-> "assign", id |-> expr.id, name |-> expr.name,
                             env |-> environment, distance |-> distance, frame |-> a.frame,
                             global |-> Get(new_value.st.heap, environment, expr.name,
                                            None).v # None])
            IN  IF new_value.r # "ok" THEN new_value
                ELSE IF a.r = "panic"
                THEN Panic(st2, [error |-> "Tried to define a variable in a too deep level"])
                ELSE IF a.b THEN Ok(st2, new_value.v)
                ELSE Err(st2, [error |-> "Variable has not been declared", name |-> expr.name])
      [] expr.kind = "Variable" ->
            LET g == Get(st.heap, environment, expr.name, distance)
                st2 == Emit(st, [ev |-> "get", id |-> expr.id, name |-> expr.name,
                                 env |-> environment, distance |-> distance, frame |-> g.frame])
            IN  IF g.r = "panic"
                THEN Panic(st2, [error |-> "Tried to resolve a variable that was defined deeper than the current environment depth"])
                ELSE IF g.v # None THEN Ok(st2, g.v[1])
                ELSE Err(st2, [error |-> "Variable has not been declared", name |-> expr.name])
      [] expr.kind = "Call" -> EvaluateCall(st, environment, distance, expr)
      [] expr.kind = "Literal" -> Ok(st, expr.value)
      [] expr.kind = "Logical" -> EvaluateLogical(st, environment, distance, expr)
      [] expr.kind = "Grouping" -> Evaluate(st, environment, distance, expr.expression)
      [] expr.kind = "Unary" ->
            LET right == Evaluate(st, environment, distance, expr.right)
            IN  IF right.r # "ok" THEN right ELSE UnaryOp(right.st, expr.operator, right.v)
      [] expr.kind = "Binary" ->
            LET left == Evaluate(st, environment, distance, expr.left)
                right == Evaluate(left.st, environment, distance, expr.right)
            IN  IF left.r # "ok" THEN left
                ELSE IF right.r # "ok" THEN right
                ELSE BinaryOp(right.st, left.v, expr.operator, right.v)

\* the value res that fun_impl hands back to Expr::evaluate, Call; the history gets an
\* "exit" event with the signal slot of the invocation that ends
Exited(res, slot) ==
    [res EXCEPT !.st = Emit(@, [ev |-> "exit", slot |-> slot, r |-> res.r, v |-> res.v])]

\* the closure fun_impl built by Stmt::Function (kind "closure") and by
\* Expr::AnonFunction (kind "anon"), and clock_impl (kind "native"), applied to args
Fun(st, callable, args) ==
    IF callable.fun.kind = "native" THEN Ok(st, Number(st.now))
    ELSE IF st.fuel = 0 THEN Diverge(st)
    ELSE LET made == IF callable.fun.kind = "closure"
                     THEN ForClosure(st, callable.fun.env, callable.fun.locals)
                     ELSE ForAnon(st, callable.fun.env)
             bound == DefineAll(made.st.heap, made.it.environment, callable.fun.params, args)
             st2 == Emit([made.st EXCEPT !.heap = bound, !.fuel = @ - 1],
                         [ev |-> "call", name |-> callable.name, kind |-> callable.fun.kind,
                          frame |-> made.it.environment, parent |-> callable.fun.env,
                          slot |-> made.it.specials,
                          signal |-> made.st.specials[made.it.specials]])
         IN  Exited(FunBody(st2, made.it, callable, 1), made.it.specials)

\* the loop of fun_impl over the statements of the body, from statement i on
FunBody(st, it, callable, i) ==
    IF i > Len(callable.fun.body) THEN Ok(st, Nil)
    ELSE FunBodyNext(Interpret(st, it, <<callable.fun.body[i]>>), callable, i)

\* fun_impl after statement i of the body: the expect on its Result and the look for
\* the "return" special
FunBodyNext(done, callable, i) ==
    IF done.r = "err"
    THEN Panic(done.st, [error |-> "Evaluating failed inside",
                         name |-> callable.name, cause |-> done.msg])
    ELSE IF done.r # "ok"
    THEN [st |-> done.st, r |-> done.r, v |-> Nil, msg |-> done.msg]
    ELSE IF "return" \in DOMAIN done.st.specials[done.it.specials]
    THEN Ok(done.st, done.st.specials[done.it.specials]["return"])
    ELSE FunBody(done.st, done.it, callable, i + 1)

\* Interpreter::interpret: the for loop over stmts
\* loop over stmts; the history gets a "stmt" event for each statement the loop
\* starts, with the signal slot of the interpreter and whether "return" is set in it
Interpret(st, it, stmts) ==
    IF stmts = <<>> THEN Done(st, it)
    ELSE InterpretRest(InterpretStmt(Emit(st, [ev |-> "stmt", kind |-> Head(stmts).kind,
                                               slot |-> it.specials,
                                               returned |-> "return" \in
                                                   DOMAIN st.specials[it.specials]]),
                                     it, Head(stmts)),
                       Tail(stmts))

\* a loop over stmts that goes on with the next statement after a statement has
\* failed with an error value
InterpretRestGoesOn(first, stmts) ==
    IF first.r \notin {"ok", "err"} \/ (first.r = "err" /\ stmts = <<>>) THEN first
    ELSE Interpret(first.st, first.it, stmts)

\* Interpreter::interpret: the `?` on a statement and the rest of the for loop
InterpretRest(first, stmts) ==
    IF first.r # "ok" THEN first ELSE Interpret(first.st, first.it, stmts)

\* Interpreter::interpret, Stmt::WhileStmt: the while loop, entered with the value of
\* the condition
WhileLoop(st, it, stmt, distance, flag) ==
    IF IsTruthy(flag).t = "panic"
    THEN [st |-> st, it |-> it, r |-> "panic",
          msg |-> [error |-> "Can not use callable as a truthy value"]]
    ELSE IF ~ValueEq(IsTruthy(flag), True) THEN Done(st, it)
    ELSE IF st.fuel = 0 THEN [st |-> st, it |-> it, r |-> "diverge", msg |-> [error |-> "none"]]
    ELSE WhileBody(Interpret([st EXCEPT !.fuel = @ - 1], it, <<stmt.body>>), stmt, distance)

\* the while loop after its body: the `?` on the body and the condition again
WhileBody(body, stmt, distance) ==
    IF body.r # "ok" THEN body
    ELSE WhileAgain(Evaluate(body.st, body.it.environment, distance, stmt.condition),
                    body.it, stmt, distance)

\* the while loop after the condition was evaluated again
WhileAgain(again, it, stmt, distance) ==
    IF again.r # "ok" THEN Fail(again, it)
    ELSE WhileLoop(again.st, it, stmt, distance, again.v)

\* Stmt::Expression after the evaluation
ExpressionStmt(value, it) ==
    IF value.r # "ok" THEN Fail(value, it) ELSE Done(value.st, it)

\* Stmt::Print after the evaluation: println! of value.to_string()
PrintStmt(value, it) ==
    IF value.r # "ok" THEN Fail(value, it)
    ELSE Done([value.st EXCEPT !.out = Append(@, ValueToString(value.v))], it)

\* Stmt::Var after the evaluation: environment.define(name, value); the history gets
\* a "define" event with the frames the definition changed
VarDefined(st, heap, it, name, v) ==
    Done(Emit([st EXCEPT !.heap = heap],
              [ev |-> "define", name |-> name, env |-> it.environment, v |-> v,
               changed |-> {f \in 1..Len(heap) : heap[f] # st.heap[f]}]), it)

\* Stmt::Var after the evaluation
VarStmt(value, it, name) ==
    IF value.r # "ok" THEN Fail(value, it)
    ELSE VarDefined(value.st, Define(value.st.heap, it.environment, name, value.v),
                    it, name, value.v)

\* the result res of a Block statement begun in interpreter state it; the history
\* gets a "block" event with the current frame before and after the statement
BlockLeft(res, it) ==
    [res EXCEPT !.st = Emit(@, [ev |-> "block", before |-> it.environment,
                                after |-> res.it.environment, r |-> res.r])]

\* a Block that puts the old frame back only when its statements succeeded
BlockStmtRestoresOnSuccess(block_result, it) ==
    BlockLeft(IF block_result.r = "ok"
              THEN [block_result EXCEPT !.it.environment = it.environment]
              ELSE block_result, it)

\* Stmt::Block after the block's statements: self.environment = old_environment
BlockStmt(block_result, it) ==
    BlockLeft([block_result EXCEPT !.it.environment = it.environment], it)

\* self.specials.borrow_mut().insert("return", value); the history gets a "return"
\* event with the slot the statement wrote and what the slot held before
Signalled(st, it, v) ==
    Done(Emit([st EXCEPT !.specials[it.specials] = MapInsert(@, "return", v)],
              [ev |-> "return", slot |-> it.specials, v |-> v,
               before |-> MapGet(st.specials[it.specials], "return")]), it)

\* a return statement that signals the return but drops the value
ReturnStmtDropsValue(eval_val, it) ==
    IF eval_val.r # "ok" THEN Fail(eval_val, it) ELSE Signalled(eval_val.st, it, Nil)

\* Stmt::ReturnStmt after the evaluation
ReturnStmt(eval_val, it) ==
    IF eval_val.r # "ok" THEN Fail(eval_val, it) ELSE Signalled(eval_val.st, it, eval_val.v)

\* Stmt::IfStmt after the evaluation of the predicate
IfStmt(truth_value, it, stmt) ==
    IF truth_value.r # "ok" THEN Fail(truth_value, it)
    ELSE IF IsTruthy(truth_value.v).t = "panic"
    THEN Fail(Panic(truth_value.st, [error |-> "Can not use callable as a truthy value"]), it)
    ELSE IF ValueEq(IsTruthy(truth_value.v), True) \/ stmt.els # None
    THEN Interpret(truth_value.st, it,
                   <<IF ValueEq(IsTruthy(truth_value.v), True) THEN stmt.then
                     ELSE stmt.els[1]>>)
    ELSE Done(truth_value.st, it)

\* Stmt::WhileStmt after the first evaluation of the condition
WhileStmt(flag, it, stmt, distance) ==
    IF flag.r # "ok" THEN Fail(flag, it)
    ELSE WhileLoop(flag.st, it, stmt, distance, flag.v)

\* the expression a statement evaluates first
StmtExpr(stmt) ==
    CASE stmt.kind \in {"Expression", "Print"} -> stmt.expression
      [] stmt.kind = "Var" -> stmt.initializer
      [] stmt.kind = "IfStmt" -> stmt.predicate
      [] stmt.kind = "WhileStmt" -> stmt.condition
      [] stmt.kind = "ReturnStmt" -> stmt.value[1]

\* the arms of Interpreter::interpret that begin with get_distance and evaluate, once
\* the expression has the result value
Evaluated(value, it, stmt, distance) ==
    CASE stmt.kind = "Expression" -> ExpressionStmt(value, it)
      [] stmt.kind = "Print" -> PrintStmt(value, it)
      [] stmt.kind = "Var" -> VarStmt(value, it, stmt.name)
      [] stmt.kind = "IfStmt" -> IfStmt(value, it, stmt)
      [] stmt.kind = "WhileStmt" -> WhileStmt(value, it, stmt, distance)
      [] stmt.kind = "ReturnStmt" -> ReturnStmt(value, it)

\* Interpreter::interpret: the match on one statement
InterpretStmt(st, it, stmt) ==
    CASE stmt.kind = "Block" ->
            BlockStmt(Interpret([st EXCEPT !.heap = Append(@, [NewEnvironment EXCEPT
                                                               !.enclosing = it.environment])],
                                [it EXCEPT !.environment = Len(st.heap) + 1],
                                stmt.statements), it)
      [] stmt.kind = "Function" ->
            Done([st EXCEPT !.heap =
                     Define(@, it.environment, stmt.name,
                            Callable(stmt.name, Len(stmt.params),
                                     [kind |-> "closure", params |-> stmt.params,
                                      body |-> stmt.body, env |-> it.environment,
                                      locals |-> it.locals]))], it)
      [] stmt.kind = "ReturnStmt" /\ stmt.value = None ->
            ReturnStmt(Ok(st, Nil), it)
      [] OTHER ->
            Evaluated(Evaluate(st, it.environment, GetDistance(st, it, StmtExpr(stmt)),
                               StmtExpr(stmt)),
                      it, stmt, GetDistance(st, it, StmtExpr(stmt)))

----------------------------------------------------------------------------
(* resolver.rs.  The resolver state rs holds the scope stack, the locals   *)
(* table of the interpreter it writes through Interpreter::resolve, the    *)
(* calls of Interpreter::resolve it has made in this pass, and the Result  *)
(* of the pass so far.                                                     *)

\* Resolver::new on an interpreter whose table is locals
NewResolver(locals) ==
    [scopes |-> <<>>, locals |-> locals, writes |-> <<>>, stack |-> <<>>, r |-> "ok",
     msg |-> [error |-> "none"]]

\* a begin_scope that pushes two scopes where the interpreter makes one frame
BeginScopeTwice(rs) ==
    [rs EXCEPT !.scopes = @ \o << EmptyMap, EmptyMap >>,
               !.stack = Append(@, [op |-> "begin", depth |-> Len(rs.scopes)])]

\* Resolver::begin_scope; `stack` is the log of the pass: every begin_scope and
\* end_scope with the depth of the stack it found, every statement with the depth
\* before and after it
BeginScope(rs) ==
    [rs EXCEPT !.scopes = Append(@, EmptyMap),
               !.stack = Append(@, [op |-> "begin", depth |-> Len(rs.scopes)])]

\* an end_scope that leaves the scope on the stack
EndScopeKeepsScope(rs) ==
    [rs EXCEPT !.stack = Append(@, [op |-> "end", depth |-> Len(rs.scopes)])]

\* Resolver::end_scope
EndScope(rs) ==
    IF rs.scopes = <<>>
    THEN [rs EXCEPT !.r = "panic", !.msg = [error |-> "Stack underflow"],
                    !.stack = Append(@, [op |-> "end", depth |-> 0])]
    ELSE [rs EXCEPT !.scopes = SubSeq(@, 1, Len(@) - 1),
                    !.stack = Append(@, [op |-> "end", depth |-> Len(rs.scopes)])]

\* Resolver::declare
Declare(rs, name) ==
    IF rs.scopes = <<>> THEN rs
    ELSE [rs EXCEPT !.scopes[Len(rs.scopes)] = MapInsert(@, name, FALSE)]

\* Resolver::define
ResolverDefine(rs, name) ==
    IF rs.scopes = <<>> THEN rs
    ELSE [rs EXCEPT !.scopes[Len(rs.scopes)] = MapInsert(@, name, TRUE)]

RECURSIVE ResolveLocalFrom(_, _, _, _, _)
\* the loop of Resolver::resolve_local, at scope index i (counting down)
ResolveLocalFrom(rs, expr, name, resolve_id, i) ==
    IF i = 0 THEN rs
    ELSE IF name \in DOMAIN rs.scopes[i]
    THEN LET id_to_use == IF resolve_id = None THEN expr.id ELSE resolve_id[1]
         IN  [rs EXCEPT !.locals = InterpreterResolve(@, id_to_use, Len(rs.scopes) - i),
                        !.writes = Append(@, [ev |-> "resolve", id |-> id_to_use,
                                              use |-> expr.id,
                                              steps |-> Len(rs.scopes) - i])]
    ELSE ResolveLocalFrom(rs, expr, name, resolve_id, i - 1)

\* Resolver::resolve_local
ResolveLocal(rs, expr, name, resolve_id) ==
    IF Len(rs.scopes) = 0 THEN rs
    ELSE ResolveLocalFrom(rs, expr, name, resolve_id, Len(rs.scopes))

\* Resolver::resolve_expr_var
ResolveExprVar(rs, expr, resolve_id) ==
    CASE expr.kind = "Variable" ->
            IF /\ rs.scopes # <<>>
               /\ MapGet(rs.scopes[Len(rs.scopes)], expr.name) = Some(FALSE)
            THEN [rs EXCEPT !.r = "err",
                            !.msg = [error |-> "Can't read local variable in its own initializer"]]
            ELSE ResolveLocal(rs, expr, expr.name, resolve_id)
      [] expr.kind = "Call" ->
            IF expr.callee.kind = "Variable"
            THEN ResolveLocal(rs, expr, expr.callee.name, resolve_id)
            ELSE [rs EXCEPT !.r = "panic", !.msg = [error |-> "Wrong type in resolve_expr_var"]]
      [] OTHER -> [rs EXCEPT !.r = "panic", !.msg = [error |-> "Wrong type in resolve_expr_var"]]

RECURSIVE ResolveStmt(_, _)
RECURSIVE ResolveCase(_, _)
RECURSIVE ResolveMany(_, _)
RECURSIVE ResolveExpr(_, _, _)
RECURSIVE ResolveExprs(_, _, _)
RECURSIVE DeclareParams(_, _)

\* the loop of Resolver::resolve_function_helper over the parameters
DeclareParams(rs, params) ==
    IF params = <<>> THEN rs
    ELSE DeclareParams(ResolverDefine(Declare(rs, Head(params)), Head(params)), Tail(params))

\* Resolver::resolve_function_helper
ResolveFunctionHelper(rs, params, body, resolve_id) ==
    LET inner == ResolveMany(DeclareParams(BeginScope(rs), params), body)
    IN  IF inner.r # "ok" THEN inner ELSE EndScope(inner)

\* Resolver::resolve_expr_assign
ResolveExprAssign(rs, expr, resolve_id) ==
    LET value == ResolveExpr(rs, expr.value, resolve_id)
    IN  IF value.r # "ok" THEN value
        ELSE ResolveLocal(value, expr, expr.name, resolve_id)

\* the loop of Resolver::resolve_expr, Call, over the arguments
ResolveExprs(rs, exprs, resolve_id) ==
    IF exprs = <<>> THEN rs
    ELSE LET first == ResolveExpr(rs, Head(exprs), resolve_id)
         IN  IF first.r # "ok" THEN first
             ELSE ResolveExprs(first, Tail(exprs), resolve_id)

\* Resolver::resolve_expr
ResolveExpr(rs, expr, resolve_id) ==
    CASE expr.kind = "Variable" -> ResolveExprVar(rs, expr, resolve_id)
      [] expr.kind = "Assign" -> ResolveExprAssign(rs, expr, resolve_id)
      [] expr.kind \in {"Binary", "Logical"} ->
            LET left == ResolveExpr(rs, expr.left, resolve_id)
            IN  IF left.r # "ok" THEN left ELSE ResolveExpr(left, expr.right, resolve_id)
      [] expr.kind = "Call" ->
            LET callee == ResolveExprVar(rs, expr, resolve_id)
            IN  IF callee.r # "ok" THEN callee
                ELSE ResolveExprs(callee, expr.arguments, resolve_id)
      [] expr.kind = "Grouping" -> ResolveExpr(rs, expr.expression, resolve_id)
      [] expr.kind = "Literal" -> rs
      [] expr.kind = "Unary" -> ResolveExpr(rs, expr.right, resolve_id)
      [] expr.kind = "AnonFunction" ->
            ResolveFunctionHelper(rs, expr.arguments, expr.body, resolve_id)

\* Resolver::resolve_many
ResolveMany(rs, stmts) ==
    IF stmts = <<>> THEN rs
    ELSE LET first == ResolveStmt(rs, Head(stmts))
         IN  IF first.r # "ok" THEN first ELSE ResolveMany(first, Tail(stmts))

\* the log of the pass gets the statement that has been resolved, with the depth of
\* the scope stack before and after it
StmtResolved(before, res) ==
    [res EXCEPT !.stack = Append(@, [op |-> "stmt", before |-> before,
                                     after |-> Len(res.scopes), r |-> res.r])]

\* Resolver::resolve
ResolveStmt(rs, stmt) == StmtResolved(Len(rs.scopes), ResolveCase(rs, stmt))

\* Resolver::resolve, the match on the statement, with resolve_block, resolve_var,
\* resolve_function, resolve_if_stmt
ResolveCase(rs, stmt) ==
    CASE stmt.kind = "Block" ->
            LET inner == ResolveMany(BeginScope(rs), stmt.statements)
            IN  IF inner.r # "ok" THEN inner ELSE EndScope(inner)
      [] stmt.kind = "Var" ->
            LET init == ResolveExpr(Declare(rs, stmt.name), stmt.initializer,
                                    Some(stmt.initializer.id))
            IN  IF init.r # "ok" THEN init ELSE ResolverDefine(init, stmt.name)
      [] stmt.kind = "Function" ->
            ResolveFunctionHelper(ResolverDefine(Declare(rs, stmt.name), stmt.name),
                                  stmt.params, stmt.body, None)
      [] stmt.kind = "Expression" -> ResolveExpr(rs, stmt.expression, None)
      [] stmt.kind = "IfStmt" ->
            LET predicate == ResolveExpr(rs, stmt.predicate, None)
                then == IF predicate.r # "ok" THEN predicate
                        ELSE ResolveStmt(predicate, stmt.then)
            IN  IF then.r # "ok" \/ stmt.els = None THEN then
                ELSE ResolveStmt(then, stmt.els[1])
      [] stmt.kind = "Print" -> ResolveExpr(rs, stmt.expression, None)
      [] stmt.kind = "ReturnStmt" ->
            IF stmt.value = None THEN rs ELSE ResolveExpr(rs, stmt.value[1], None)
      [] stmt.kind = "WhileStmt" ->
            LET condition == ResolveExpr(rs, stmt.condition, Some(stmt.condition.id))
            IN  IF condition.r # "ok" THEN condition ELSE ResolveStmt(condition, stmt.body)

----------------------------------------------------------------------------
(* Source texts.  Each is given as the statements the parser produces for  *)
(* it, with the expression ids counted from a base b, so that the ids of   *)
(* two texts of one session never coincide.                                *)

\* { var a = v1; { var a = v2; print a; } print a; }
ShadowInBlock(b, v1, v2) ==
    << SBlock(<< SVar("a", ELiteral(b + 1, Number(v1))),
                 SBlock(<< SVar("a", ELiteral(b + 2, Number(v2))),
                           SPrint(EVariable(b + 3, "a")) >>),
                 SPrint(EVariable(b + 4, "a")) >>) >>

\* var a = v1; { var a = v2; print a; } print a;
ShadowGlobal(b, v1, v2) ==
    << SVar("a", ELiteral(b + 1, Number(v1))),
       SBlock(<< SVar("a", ELiteral(b + 2, Number(v2))),
                 SPrint(EVariable(b + 3, "a")) >>),
       SPrint(EVariable(b + 4, "a")) >>

\* { var a = v1; { { var a = v2; print a; } print a; } print a; }
ShadowDeep(b, v1, v2) ==
    << SBlock(<< SVar("a", ELiteral(b + 1, Number(v1))),
                 SBlock(<< SBlock(<< SVar("a", ELiteral(b + 2, Number(v2))),
                                     SPrint(EVariable(b + 3, "a")) >>),
                           SPrint(EVariable(b + 4, "a")) >>),
                 SPrint(EVariable(b + 5, "a")) >>) >>

\* { var a = 1; print a + 1; }
UseInBinary(b) ==
    << SBlock(<< SVar("a", ELiteral(b + 1, Number(1))),
                 SPrint(EBinary(b + 2, EVariable(b + 3, "a"), "Plus",
                                ELiteral(b + 4, Number(1)))) >>) >>

\* { var a = 1; print -a; }
UseInUnary(b) ==
    << SBlock(<< SVar("a", ELiteral(b + 1, Number(1))),
                 SPrint(EUnary(b + 2, "Minus", EVariable(b + 3, "a"))) >>) >>

\* { var a = 1; print (a); }
UseInGrouping(b) ==
    << SBlock(<< SVar("a", ELiteral(b + 1, Number(1))),
                 SPrint(EGrouping(b + 2, EVariable(b + 3, "a"))) >>) >>

\* { var a = 1; print a or 2; }
UseInLogical(b) ==
    << SBlock(<< SVar("a", ELiteral(b + 1, Number(1))),
                 SPrint(ELogical(b + 2, EVariable(b + 3, "a"), "Or",
                                 ELiteral(b + 4, Number(2)))) >>) >>

\* fun same(x) { return x; } { var a = 1; print same(a); }
UseInArgument(b) ==
    << SFunction("same", <<"x">>, << SReturn(Some(EVariable(b + 1, "x"))) >>),
       SBlock(<< SVar("a", ELiteral(b + 2, Number(1))),
                 SPrint(ECall(b + 3, EVariable(b + 4, "same"),
                              << EVariable(b + 5, "a") >>)) >>) >>

\* { var a = 1; { var b = 2; { b = a; } print b; } }
AssignAcrossScopes(b) ==
    << SBlock(<< SVar("a", ELiteral(b + 1, Number(1))),
                 SBlock(<< SVar("b", ELiteral(b + 2, Number(2))),
                           SBlock(<< SExpression(EAssign(b + 3, "b",
                                                         EVariable(b + 4, "a"))) >>),
                           SPrint(EVariable(b + 5, "b")) >>) >>) >>

\* { var a = 1; { var b = 2; var c = a + b; print c; } }
InitializerAcrossScopes(b) ==
    << SBlock(<< SVar("a", ELiteral(b + 1, Number(1))),
                 SBlock(<< SVar("b", ELiteral(b + 2, Number(2))),
                           SVar("c", EBinary(b + 3, EVariable(b + 4, "a"), "Plus",
                                             EVariable(b + 5, "b"))),
                           SPrint(EVariable(b + 6, "c")) >>) >>) >>

\* { var a = 1; { a = a + 1; print a; } print a; }
AssignOuter(b) ==
    << SBlock(<< SVar("a", ELiteral(b + 1, Number(1))),
                 SBlock(<< SExpression(EAssign(b + 2, "a",
                               EBinary(b + 3, EVariable(b + 4, "a"), "Plus",
                                       ELiteral(b + 5, Number(1))))),
                           SPrint(EVariable(b + 6, "a")) >>),
                 SPrint(EVariable(b + 7, "a")) >>) >>

\* var g = 1; { { print g; g = 2; } } print g;
GlobalFromBlocks(b) ==
    << SVar("g", ELiteral(b + 1, Number(1))),
       SBlock(<< SBlock(<< SPrint(EVariable(b + 2, "g")),
                           SExpression(EAssign(b + 3, "g", ELiteral(b + 4, Number(2)))) >>) >>),
       SPrint(EVariable(b + 5, "g")) >>

\* the declaration of makeCounter, whose inner function count adds one to the local i
\* of the makeCounter call that made it; `last` is the last statement of count
MakeCounter(b, last) ==
    SFunction("makeCounter", <<>>,
        << SVar("i", ELiteral(b + 1, Number(0))),
           SFunction("count", <<>>,
               << SExpression(EAssign(b + 2, "i",
                      EBinary(b + 3, EVariable(b + 4, "i"), "Plus", ELiteral(b + 5, Number(1))))),
                  last >>),
           SReturn(Some(EVariable(b + 7, "count"))) >>)

\* fun makeCounter() { var i = 0; fun count() { i = i + 1; print i; } return count; }
\* var c = makeCounter(); c(); ... c();    with k calls, one statement each
Counter(b, k) ==
    << MakeCounter(b, SPrint(EVariable(b + 6, "i"))),
       SVar("c", ECall(b + 8, EVariable(b + 9, "makeCounter"), <<>>)) >>
    \o [j \in 1..k |-> SExpression(ECall(b + 10 + 2 * j, EVariable(b + 11 + 2 * j, "c"), <<>>))]

\* as Counter, but count returns i and the caller prints it: print c(); ... print c();
CounterReturn(b, k) ==
    << MakeCounter(b, SReturn(Some(EVariable(b + 6, "i")))),
       SVar("c", ECall(b + 8, EVariable(b + 9, "makeCounter"), <<>>)) >>
    \o [j \in 1..k |-> SPrint(ECall(b + 10 + 2 * j, EVariable(b + 11 + 2 * j, "c"), <<>>))]

\* { <Counter(b, k)> }: the declaration, the closure and its calls in one block
CounterInBlock(b, k) == << SBlock(Counter(b, k)) >>

\* two closures of makeCounter called in turn: c1(); c1(); c2(); c1(); c2();
TwoCounters(b) ==
    << MakeCounter(b, SPrint(EVariable(b + 6, "i"))),
       SVar("c1", ECall(b + 8, EVariable(b + 9, "makeCounter"), <<>>)),
       SVar("c2", ECall(b + 10, EVariable(b + 11, "makeCounter"), <<>>)),
       SExpression(ECall(b + 12, EVariable(b + 13, "c1"), <<>>)),
       SExpression(ECall(b + 14, EVariable(b + 15, "c1"), <<>>)),
       SExpression(ECall(b + 16, EVariable(b + 17, "c2"), <<>>)),
       SExpression(ECall(b + 18, EVariable(b + 19, "c1"), <<>>)),
       SExpression(ECall(b + 20, EVariable(b + 21, "c2"), <<>>)) >>

\* fun add(n) { var s = n; s = s + 1; print s; }  add(1); add(1); add(2);
\* every call starts from its own argument
FreshLocals(b) ==
    << SFunction("add", <<"n">>,
           << SVar("s", EVariable(b + 1, "n")),
              SExpression(EAssign(b + 2, "s",
                  EBinary(b + 3, EVariable(b + 4, "s"), "Plus", ELiteral(b + 14, Number(1))))),
              SPrint(EVariable(b + 15, "s")) >>),
       SExpression(ECall(b + 5, EVariable(b + 6, "add"), <<ELiteral(b + 7, Number(1))>>)),
       SExpression(ECall(b + 8, EVariable(b + 9, "add"), <<ELiteral(b + 10, Number(1))>>)),
       SExpression(ECall(b + 11, EVariable(b + 12, "add"), <<ELiteral(b + 13, Number(2))>>)) >>

\* { var a = <initializer>; }
InitializedInBlock(initializer) == << SBlock(<< SVar("a", initializer) >>) >>

\* var a = 1; { var a = a; print a; }
SelfInitShadow(b) ==
    << SVar("a", ELiteral(b + 1, Number(1))),
       SBlock(<< SVar("a", EVariable(b + 2, "a")), SPrint(EVariable(b + 3, "a")) >>) >>

\* fun same(x) { return x; }  { var a = same(a); }
SelfInitArgument(b) ==
    << SFunction("same", <<"x">>, << SReturn(Some(EVariable(b + 1, "x"))) >>),
       SBlock(<< SVar("a", ECall(b + 2, EVariable(b + 3, "same"), <<EVariable(b + 4, "a")>>)) >>) >>

\* fun f() { var a = a; }  f();
SelfInitInFunction(b) ==
    << SFunction("f", <<>>, << SVar("a", EVariable(b + 1, "a")) >>),
       SExpression(ECall(b + 2, EVariable(b + 3, "f"), <<>>)) >>

\* { fun a() { return 1; }  { var a = a(); print a; } }
SelfInitCalleeShadow(b) ==
    << SBlock(<< SFunction("a", <<>>, << SReturn(Some(ELiteral(b + 1, Number(1)))) >>),
                 SBlock(<< SVar("a", ECall(b + 2, EVariable(b + 3, "a"), <<>>)),
                           SPrint(EVariable(b + 4, "a")) >>) >>) >>

\* { var a = 1; { var b = a; print b; } }
OtherInit(b) ==
    << SBlock(<< SVar("a", ELiteral(b + 1, Number(1))),
                 SBlock(<< SVar("b", EVariable(b + 2, "a")),
                           SPrint(EVariable(b + 3, "b")) >>) >>) >>

\* fun two(x, y) { print x; return y; }
DeclareTwo(b) ==
    SFunction("two", <<"x", "y">>,
              << SPrint(EVariable(b + 1, "x")), SReturn(Some(EVariable(b + 2, "y"))) >>)

\* print two(<arguments>);
PrintTwo(b, arguments) == SPrint(ECall(b + 3, EVariable(b + 4, "two"), arguments))

\* fun two(x, y) { ... }  print two(1);
TooFew(b) == << DeclareTwo(b), PrintTwo(b, << ELiteral(b + 5, Number(1)) >>) >>

\* fun two(x, y) { ... }  print two(1, 2, 3);
TooMany(b) ==
    << DeclareTwo(b),
       PrintTwo(b, << ELiteral(b + 5, Number(1)), ELiteral(b + 6, Number(2)),
                      ELiteral(b + 7, Number(3)) >>) >>

\* fun two(x, y) { ... }  print two(1, 2);
Exact(b) ==
    << DeclareTwo(b),
       PrintTwo(b, << ELiteral(b + 5, Number(1)), ELiteral(b + 6, Number(2)) >>) >>

\* fun zero() { print 0; }  zero(1);
ZeroGivenOne(b) ==
    << SFunction("zero", <<>>, << SPrint(ELiteral(b + 1, Number(0))) >>),
       SExpression(ECall(b + 2, EVariable(b + 3, "zero"), << ELiteral(b + 4, Number(1)) >>)) >>

\* print clock(1);
NativeArity(b) ==
    << SPrint(ECall(b + 1, EVariable(b + 2, "clock"), << ELiteral(b + 3, Number(1)) >>)) >>

\* print clock();
Clock(b) == << SPrint(ECall(b + 1, EVariable(b + 2, "clock"), <<>>)) >>

\* { fun two(x, y) { ... }  print two(1); }
TooFewInBlock(b) == << SBlock(TooFew(b)) >>

\* fun two(x, y) { ... }  fun outer() { print two(1); return 1; }  print outer();
TooFewInFunction(b) ==
    << DeclareTwo(b),
       SFunction("outer", <<>>,
                 << PrintTwo(b, << ELiteral(b + 5, Number(1)) >>),
                    SReturn(Some(ELiteral(b + 6, Number(1)))) >>),
       SPrint(ECall(b + 7, EVariable(b + 8, "outer"), <<>>)) >>

\* var g = 0;  fun two(x, y) { ... }  print two(g = 1);
TooFewWithEffect(b) ==
    << SVar("g", ELiteral(b + 5, Number(0))),
       DeclareTwo(b),
       PrintTwo(b, << EAssign(b + 6, "g", ELiteral(b + 7, Number(1))) >>) >>

\* fun shout() { print 7; return 1; }  fun two(x, y) { ... }  print two(shout());
TooFewWithCall(b) ==
    << SFunction("shout", <<>>, << SPrint(ELiteral(b + 5, Number(7))),
                                   SReturn(Some(ELiteral(b + 6, Number(1)))) >>),
       DeclareTwo(b),
       PrintTwo(b, << ECall(b + 7, EVariable(b + 8, "shout"), <<>>) >>) >>

\* var g = 0;  fun two(x, y) { ... }  print two(1, 2, g = 1);
TooManyWithEffect(b) ==
    << SVar("g", ELiteral(b + 5, Number(0))),
       DeclareTwo(b),
       PrintTwo(b, << ELiteral(b + 6, Number(1)), ELiteral(b + 7, Number(2)),
                      EAssign(b + 8, "g", ELiteral(b + 9, Number(1))) >>) >>

\* var g = 0;  fun sideEffect() { g = 1; return 5; }
\* print <left> <operator> sideEffect();   or   print <left> <operator> (g = 1);
\* print g;
Logic(b, left, operator, right) ==
    << SVar("g", ELiteral(b + 1, Number(0))),
       SFunction("sideEffect", <<>>,
                 << SExpression(EAssign(b + 2, "g", ELiteral(b + 3, Number(1)))),
                    SReturn(Some(ELiteral(b + 4, Number(5)))) >>),
       SPrint(ELogical(b + 5, ELiteral(b + 6, left), operator,
                       IF right = "call"
                       THEN ECall(b + 7, EVariable(b + 8, "sideEffect"), <<>>)
                       ELSE EGrouping(b + 7, EAssign(b + 8, "g", ELiteral(b + 9, Number(1)))))),
       SPrint(EVariable(b + 10, "g")) >>

\* the left operands of the texts about `and` and `or`: 0, 1, "", "1", true, false, nil
LogicLefts ==
    << Number(0), Number(1), StringValue(<<>>), StringValue(<<49>>), True, False, Nil >>

\* fun f() { <body> }  print f();  print 9;
Returning(b, body) ==
    << SFunction("f", <<>>, body),
       SPrint(ECall(b + 1, EVariable(b + 2, "f"), <<>>)),
       SPrint(ELiteral(b + 3, Number(9))) >>

\* return <n>;
ReturnNumber(id, n) == SReturn(Some(ELiteral(id, Number(n))))

\* print <n>;
PrintNumber(id, n) == SPrint(ELiteral(id, Number(n)))

\* the values the texts of the return suite hand back
ReturnValues == << Number(1), StringValue(<<49>>), True, Nil >>

\* fun f() { return <v>; print 2; }  print f();  print 9;
ReturnDirect(b, v) ==
    Returning(b, << SReturn(Some(ELiteral(b + 10, v))), PrintNumber(b + 11, 2) >>)

\* fun f() { { return 1; print 2; } print 3; }  print f();  print 9;
ReturnInBlock(b) ==
    Returning(b, << SBlock(<< ReturnNumber(b + 10, 1), PrintNumber(b + 11, 2) >>),
                    PrintNumber(b + 12, 3) >>)

\* fun f() { if (true) return 1; print 2; }  print f();  print 9;
ReturnInIf(b) ==
    Returning(b, << SIf(ELiteral(b + 10, True), ReturnNumber(b + 11, 1), None),
                    PrintNumber(b + 12, 2) >>)

\* fun f() { if (false) print 2; else return 1; print 3; }  print f();  print 9;
ReturnInElse(b) ==
    Returning(b, << SIf(ELiteral(b + 10, False), PrintNumber(b + 11, 2),
                        Some(ReturnNumber(b + 12, 1))),
                    PrintNumber(b + 13, 3) >>)

\* fun f() { if (true) { return 1; print 2; } print 3; }  print f();  print 9;
ReturnInIfBlock(b) ==
    Returning(b, << SIf(ELiteral(b + 10, True),
                        SBlock(<< ReturnNumber(b + 11, 1), PrintNumber(b + 12, 2) >>), None),
                    PrintNumber(b + 13, 3) >>)

\* fun f() { var i = 0; while (i < 2) { i = i + 1; return i; } print 3; }
\* print f();  print 9;
ReturnInWhile(b) ==
    Returning(b, << SVar("i", ELiteral(b + 10, Number(0))),
                    SWhile(EBinary(b + 11, EVariable(b + 12, "i"), "Less",
                                   ELiteral(b + 13, Number(2))),
                           SBlock(<< SExpression(
                                        EAssign(b + 14, "i",
                                                EBinary(b + 15, EVariable(b + 16, "i"), "Plus",
                                                        ELiteral(b + 17, Number(1))))),
                                     SReturn(Some(EVariable(b + 18, "i"))) >>)),
                    PrintNumber(b + 19, 3) >>)

\* fun f() { print 2; }  print f();  print 9;
NoReturn(b) == Returning(b, << PrintNumber(b + 10, 2) >>)

\* fun f() { }  print f();  print 9;
EmptyBody(b) == Returning(b, <<>>)

\* fun f() { return; print 2; }  print f();  print 9;
BareReturn(b) == Returning(b, << SReturn(None), PrintNumber(b + 10, 2) >>)

\* fun f() { if (true) return; print 2; }  print f();  print 9;
BareReturnInIf(b) ==
    Returning(b, << SIf(ELiteral(b + 10, True), SReturn(None), None),
                    PrintNumber(b + 11, 2) >>)

\* fun inner() { return 1; }  fun f() { inner(); print 2; return 3; }
\* print f();  print 9;
NestedReturn(b) ==
    << SFunction("inner", <<>>, << ReturnNumber(b + 20, 1) >>) >>
    \o Returning(b, << SExpression(ECall(b + 10, EVariable(b + 11, "inner"), <<>>)),
                       PrintNumber(b + 12, 2),
                       ReturnNumber(b + 13, 3) >>)

\* fun a() { return 1; }  fun inner() { print a(); return 2; }
\* fun f() { print inner(); return 3; }  print f();  print 9;
VeryNestedReturn(b) ==
    << SFunction("a", <<>>, << ReturnNumber(b + 20, 1) >>),
       SFunction("inner", <<>>, << SPrint(ECall(b + 21, EVariable(b + 22, "a"), <<>>)),
                                   ReturnNumber(b + 23, 2) >>) >>
    \o Returning(b, << SPrint(ECall(b + 10, EVariable(b + 11, "inner"), <<>>)),
                       ReturnNumber(b + 12, 3) >>)

\* fun inner() { return; }  fun f() { inner(); print 2; }  print f();  print 9;
NestedBareReturn(b) ==
    << SFunction("inner", <<>>, << SReturn(None) >>) >>
    \o Returning(b, << SExpression(ECall(b + 10, EVariable(b + 11, "inner"), <<>>)),
                       PrintNumber(b + 12, 2) >>)

\* fun fib(n) { if (n < 2) return n; return fib(n - 1) + fib(n - 2); }  print fib(<k>);
Fib(b, k) ==
    << SFunction("fib", << "n" >>,
                 << SIf(EBinary(b + 1, EVariable(b + 2, "n"), "Less",
                                ELiteral(b + 3, Number(2))),
                        SReturn(Some(EVariable(b + 4, "n"))), None),
                    SReturn(Some(
                        EBinary(b + 5,
                                ECall(b + 6, EVariable(b + 7, "fib"),
                                      << EBinary(b + 8, EVariable(b + 9, "n"), "Minus",
                                                 ELiteral(b + 10, Number(1))) >>),
                                "Plus",
                                ECall(b + 11, EVariable(b + 12, "fib"),
                                      << EBinary(b + 13, EVariable(b + 14, "n"), "Minus",
                                                 ELiteral(b + 15, Number(2))) >>)))) >>),
       SPrint(ECall(b + 16, EVariable(b + 17, "fib"), << ELiteral(b + 18, Number(k)) >>)) >>

\* var n = <k>;  fun down() { print n; n = n - 1; if (n) down(); }  down();
Countdown(b, k) ==
    << SVar("n", ELiteral(b + 1, Number(k))),
       SFunction("down", <<>>,
                 << SPrint(EVariable(b + 2, "n")),
                    SExpression(EAssign(b + 3, "n",
                                        EBinary(b + 4, EVariable(b + 5, "n"), "Minus",
                                                ELiteral(b + 6, Number(1))))),
                    SIf(EVariable(b + 7, "n"),
                        SExpression(ECall(b + 8, EVariable(b + 9, "down"), <<>>)), None) >>),
       SExpression(ECall(b + 10, EVariable(b + 11, "down"), <<>>)) >>

\* the runtime errors of the failure suite
FailureKinds == << "undeclared", "arity", "operands", "notcallable", "assign" >>

\* the boolean contexts of the failure suite
BooleanKinds == << "if", "while", "and", "or", "not" >>

\* where the statement of a text of the failure suite stands
Places == << "top", "block", "blocks", "function", "functions", "blockInFunction" >>

\* the statement that fails: print x;  g();  print 1 - "1";  v();  x = 1;
\* if (clock) print 1;  while (clock) print 1;  print clock and 1;  print clock or 1;
\* print !clock;  and one that does not fail: if (v) print 1;
FailingStmt(b, kind) ==
    CASE kind = "undeclared" -> SPrint(EVariable(b + 1, "x"))
      [] kind = "arity" -> SExpression(ECall(b + 1, EVariable(b + 2, "g"), <<>>))
      [] kind = "operands" ->
            SPrint(EBinary(b + 1, ELiteral(b + 2, Number(1)), "Minus",
                           ELiteral(b + 3, StringValue(<<49>>))))
      [] kind = "notcallable" -> SExpression(ECall(b + 1, EVariable(b + 2, "v"), <<>>))
      [] kind = "assign" -> SExpression(EAssign(b + 1, "x", ELiteral(b + 2, Number(1))))
      [] kind = "if" -> SIf(EVariable(b + 1, "clock"), PrintNumber(b + 2, 1), None)
      [] kind = "while" -> SWhile(EVariable(b + 1, "clock"), PrintNumber(b + 2, 1))
      [] kind = "and" ->
            SPrint(ELogical(b + 1, EVariable(b + 2, "clock"), "And",
                            ELiteral(b + 3, Number(1))))
      [] kind = "or" ->
            SPrint(ELogical(b + 1, EVariable(b + 2, "clock"), "Or",
                            ELiteral(b + 3, Number(1))))
      [] kind = "not" -> SPrint(EUnary(b + 1, "Bang", EVariable(b + 2, "clock")))
      [] kind = "number" -> SIf(EVariable(b + 1, "v"), PrintNumber(b + 2, 1), None)

\* the statement put at its place: at top level, in a block, in two blocks, in the
\* body of f, in the body of f called by outer, in a block of the body of f
Placed(b, place, stmt) ==
    CASE place = "top" -> << stmt >>
      [] place = "block" -> << SBlock(<< stmt >>) >>
      [] place = "blocks" -> << SBlock(<< SBlock(<< stmt >>) >>) >>
      [] place = "function" ->
            << SFunction("f", <<>>, << stmt >>),
               SExpression(ECall(b + 10, EVariable(b + 11, "f"), <<>>)) >>
      [] place = "functions" ->
            << SFunction("f", <<>>, << stmt >>),
               SFunction("outer", <<>>,
                         << SExpression(ECall(b + 10, EVariable(b + 11, "f"), <<>>)) >>),
               SExpression(ECall(b + 12, EVariable(b + 13, "outer"), <<>>)) >>
      [] place = "blockInFunction" ->
            << SFunction("f", <<>>, << SBlock(<< stmt >>) >>),
               SExpression(ECall(b + 10, EVariable(b + 11, "f"), <<>>)) >>

\* var v = 1;  fun g(a) { }  <the failing statement at its place>  print 9;
Failing(b, kind, place) ==
    << SVar("v", ELiteral(b + 20, Number(1))), SFunction("g", << "a" >>, <<>>) >>
    \o Placed(b, place, FailingStmt(b, kind))
    \o << PrintNumber(b + 21, 9) >>

\* { var a = 1; var b = x = a; print b; }  print 9;
AssignInInitializer(b) ==
    << SBlock(<< SVar("a", ELiteral(b + 1, Number(1))),
                 SVar("b", EAssign(b + 2, "x", EVariable(b + 3, "a"))),
                 SPrint(EVariable(b + 4, "b")) >>),
       PrintNumber(b + 5, 9) >>

\* the statement of the body of the function of a text of the lexical suite:
\* print a;  or  a = 5;
FreeUse(b, use) ==
    IF use = "read" THEN SPrint(EVariable(b + 1, "a"))
    ELSE SExpression(EAssign(b + 1, "a", ELiteral(b + 2, Number(5))))

\* the caller: { var a = 2; h(); print a; }  or
\* fun caller() { var a = 2; h(); print a; }  caller();
Caller(b, caller) ==
    IF caller = "block"
    THEN << SBlock(<< SVar("a", ELiteral(b + 3, Number(2))),
                      SExpression(ECall(b + 4, EVariable(b + 5, "h"), <<>>)),
                      SPrint(EVariable(b + 6, "a")) >>) >>
    ELSE << SFunction("caller", <<>>,
                      << SVar("a", ELiteral(b + 3, Number(2))),
                         SExpression(ECall(b + 4, EVariable(b + 5, "h"), <<>>)),
                         SPrint(EVariable(b + 6, "a")) >>),
            SExpression(ECall(b + 7, EVariable(b + 8, "caller"), <<>>)) >>

\* var a = 1;  fun h() { <use of a> }  <caller>  print a;
\* at top level (scope "global") or inside a block (scope "block")
FreeVariable(b, scope, caller, use) ==
    IF scope = "global"
    THEN << SVar("a", ELiteral(b + 9, Number(1))),
            SFunction("h", <<>>, << FreeUse(b, use) >>) >>
         \o Caller(b, caller) \o << SPrint(EVariable(b + 10, "a")) >>
    ELSE << SBlock(<< SVar("a", ELiteral(b + 9, Number(1))),
                      SFunction("h", <<>>, << FreeUse(b, use) >>) >>
                   \o Caller(b, caller) \o << SPrint(EVariable(b + 10, "a")) >>) >>

\* { fun h() { print a; }  { var a = 2; h(); print a; } }: no scope around h declares a
UnboundVariable(b) ==
    << SBlock(<< SFunction("h", <<>>, << FreeUse(b, "read") >>) >> \o Caller(b, "block")) >>

\* the texts of the lexical suite
LexicalCases ==
    << [scope |-> "global", caller |-> "block", use |-> "read"],
       [scope |-> "global", caller |-> "block", use |-> "write"],
       [scope |-> "global", caller |-> "function", use |-> "read"],
       [scope |-> "global", caller |-> "function", use |-> "write"],
       [scope |-> "block", caller |-> "block", use |-> "read"],
       [scope |-> "block", caller |-> "block", use |-> "write"],
       [scope |-> "block", caller |-> "function", use |-> "read"],
       [scope |-> "block", caller |-> "function", use |-> "write"] >>

\* the function of a text of the anon suite, declared in one of two forms:
\* fun f(<params>) { <body> }   or   var f = fun (<params>) { <body> };
Declared(b, form, params, body) ==
    IF form = "named" THEN SFunction("f", params, body)
    ELSE SVar("f", EAnonFunction(b + 1, params, body))

\* the parameters, the body and the arguments of the function in each case:
\* "param"          f(x) { print x; }             f(1)
\* "local"          f()  { var y = 2; print y; }  f()
\* "assignParam"    f(x) { x = 3; print x; }      f(1)
\* "captured"       f()  { print a; }             f()
\* "assignCaptured" f()  { a = 4; }               f()
\* "global"         f()  { print v; }             f()
\* "return"         f(x) { return 7; }            f(1)
CaseParams(case) ==
    IF case \in {"param", "assignParam", "return"} THEN << "x" >> ELSE <<>>

CaseBody(b, case) ==
    CASE case = "param" -> << SPrint(EVariable(b + 2, "x")) >>
      [] case = "local" ->
            << SVar("y", ELiteral(b + 2, Number(2))), SPrint(EVariable(b + 3, "y")) >>
      [] case = "assignParam" ->
            << SExpression(EAssign(b + 2, "x", ELiteral(b + 3, Number(3)))),
               SPrint(EVariable(b + 4, "x")) >>
      [] case = "captured" -> << SPrint(EVariable(b + 2, "a")) >>
      [] case = "assignCaptured" ->
            << SExpression(EAssign(b + 2, "a", ELiteral(b + 3, Number(4)))) >>
      [] case = "global" -> << SPrint(EVariable(b + 2, "v")) >>
      [] case = "return" -> << ReturnNumber(b + 2, 7) >>

CaseArguments(b, case) ==
    IF case \in {"param", "assignParam", "return"} THEN << ELiteral(b + 5, Number(1)) >>
    ELSE <<>>

\* var v = 1;  { var a = 1;  <f declared>  print f(<arguments>);  print a; }
FunctionForm(b, form, case) ==
    << SVar("v", ELiteral(b + 6, Number(1))),
       SBlock(<< SVar("a", ELiteral(b + 7, Number(1))),
                 Declared(b, form, CaseParams(case), CaseBody(b, case)),
                 SPrint(ECall(b + 8, EVariable(b + 9, "f"), CaseArguments(b, case))),
                 SPrint(EVariable(b + 10, "a")) >>) >>

\* the cases of the anon suite
FunctionCases ==
    << "param", "local", "assignParam", "captured", "assignCaptured", "global", "return" >>

\* the forms of the anon suite
FunctionForms == << "named", "anon" >>

\* fun f() { while (true) { return <v>; } print 2; }  print f();  print 9;
LoopForever(b, v) ==
    Returning(b, << SWhile(ELiteral(b + 10, True),
                           SBlock(<< SReturn(Some(ELiteral(b + 11, v))) >>)),
                    PrintNumber(b + 12, 2) >>)

\* fun f() { var i = 0; while (i < <k>) { i = i + 1; return i; } print 2; }
\* print f();  print 9;
LoopBounded(b, k) ==
    Returning(b, << SVar("i", ELiteral(b + 10, Number(0))),
                    SWhile(EBinary(b + 11, EVariable(b + 12, "i"), "Less",
                                   ELiteral(b + 13, Number(k))),
                           SBlock(<< SExpression(
                                        EAssign(b + 14, "i",
                                                EBinary(b + 15, EVariable(b + 16, "i"), "Plus",
                                                        ELiteral(b + 17, Number(1))))),
                                     SReturn(Some(EVariable(b + 18, "i"))) >>)),
                    PrintNumber(b + 19, 2) >>)

\* var i = 0;  while (i < <k>) i = i + 1;  print i;
CountingLoop(b, k) ==
    << SVar("i", ELiteral(b + 1, Number(0))),
       SWhile(EBinary(b + 2, EVariable(b + 3, "i"), "Less", ELiteral(b + 4, Number(k))),
              SExpression(EAssign(b + 5, "i",
                                  EBinary(b + 6, EVariable(b + 7, "i"), "Plus",
                                          ELiteral(b + 8, Number(1)))))),
       SPrint(EVariable(b + 9, "i")) >>

\* a source text with the name it goes by in this module and the parameter it was
\* written with
Text(name, arg, stmts) == [name |-> name, arg |-> arg, stmts |-> stmts]

\* the texts about `and` and `or`: every left operand with both operators, the right
\* operand a call for the first of each and an assignment for the second
LogicTexts ==
    [i \in 1..(4 * Len(LogicLefts)) |->
        LET left == LogicLefts[((i - 1) \div 4) + 1]
            operator == IF (i - 1) % 2 = 0 THEN "And" ELSE "Or"
            right == IF ((i - 1) \div 2) % 2 = 0 THEN "call" ELSE "assign"
        IN  Text("Logic", [left |-> left, operator |-> operator, right |-> right],
                 Logic(9000 + 20 * i, left, operator, right))]

\* { var a = a; }
Rejected(id) == SBlock(<< SVar("a", EVariable(id, "a")) >>)

\* { var c = 2; print c; }
Accepted(b) ==
    SBlock(<< SVar("c", ELiteral(b, Number(2))), SPrint(EVariable(b + 1, "c")) >>)

\* where the statement the resolver rejects stands among statements it accepts
RejectedPlaces ==
    <<"first", "middle", "last", "nested", "function", "shadow", "none", "global">>

\* first:    { var a = a; } print 1; { var c = 2; print c; }
\* middle:   print 1; { var a = a; } { var c = 2; print c; }
\* last:     print 1; { var c = 2; print c; } { var a = a; }
\* nested:   print 1; { var c = 2; print c; { var a = a; } print c; }
\* function: print 1; fun f() { var a = a; } { var c = 2; print c; }
\* shadow:   var a = 1; print a; { var a = a; } { var c = 2; print c; }
\* none:     print 1; { var c = 2; print c; } print 3;
\* global:   print 1; var a = a; { var c = 2; print c; }
Unresolvable(b, place) ==
    CASE place = "first" -> << Rejected(b + 1), PrintNumber(b + 2, 1), Accepted(b + 3) >>
      [] place = "middle" -> << PrintNumber(b + 1, 1), Rejected(b + 2), Accepted(b + 3) >>
      [] place = "last" -> << PrintNumber(b + 1, 1), Accepted(b + 2), Rejected(b + 4) >>
      [] place = "nested" ->
            << PrintNumber(b + 1, 1),
               SBlock(<< SVar("c", ELiteral(b + 2, Number(2))),
                         SPrint(EVariable(b + 3, "c")),
                         Rejected(b + 4),
                         SPrint(EVariable(b + 5, "c")) >>) >>
      [] place = "function" ->
            << PrintNumber(b + 1, 1),
               SFunction("f", <<>>, << SVar("a", EVariable(b + 2, "a")) >>),
               Accepted(b + 3) >>
      [] place = "shadow" ->
            << SVar("a", ELiteral(b + 1, Number(1))), SPrint(EVariable(b + 2, "a")),
               Rejected(b + 3), Accepted(b + 4) >>
      [] place = "none" -> << PrintNumber(b + 1, 1), Accepted(b + 2), PrintNumber(b + 4, 3) >>
      [] place = "global" ->
            << PrintNumber(b + 1, 1), SVar("a", EVariable(b + 2, "a")), Accepted(b + 3) >>

\* the id of the rejected use of a in Unresolvable(b, place), 0 when there is none, and
\* the id of the last use of c
UnresolvableIds(b, place) ==
    CASE place = "first" -> [rejected |-> b + 1, last |-> b + 4]
      [] place = "middle" -> [rejected |-> b + 2, last |-> b + 4]
      [] place = "last" -> [rejected |-> b + 4, last |-> b + 3]
      [] place = "nested" -> [rejected |-> b + 4, last |-> b + 5]
      [] place = "function" -> [rejected |-> b + 2, last |-> b + 4]
      [] place = "shadow" -> [rejected |-> b + 3, last |-> b + 5]
      [] place = "none" -> [rejected |-> 0, last |-> b + 3]
      [] place = "global" -> [rejected |-> 0, last |-> b + 4]

\* the texts with a statement the resolver rejects
ResolutionTexts ==
    [i \in 1..Len(RejectedPlaces) |->
        Text("Unresolvable",
             [place |-> RejectedPlaces[i], ids |-> UnresolvableIds(22000 + 10 * i, RejectedPlaces[i])],
             Unresolvable(22000 + 10 * i, RejectedPlaces[i]))]

\* what the callee of the call of a text of the callee suite is
CalleeKinds == << "variable", "call", "grouping", "anon" >>

\* the call: one();  maker()();  (one)();  fun () { print 1; }();
CalleeStmt(b, kind) ==
    CASE kind = "variable" -> SExpression(ECall(b + 1, EVariable(b + 2, "one"), <<>>))
      [] kind = "call" ->
            SExpression(ECall(b + 1, ECall(b + 2, EVariable(b + 3, "maker"), <<>>), <<>>))
      [] kind = "grouping" ->
            SExpression(ECall(b + 1, EGrouping(b + 2, EVariable(b + 3, "one")), <<>>))
      [] kind = "anon" ->
            SExpression(ECall(b + 1, EAnonFunction(b + 2, <<>>, << PrintNumber(b + 3, 1) >>),
                              <<>>))

\* fun one() { print 1; }  fun maker() { return one; }  <the call at its place>
\* print 9;
Called(b, kind, place) ==
    << SFunction("one", <<>>, << PrintNumber(b + 20, 1) >>),
       SFunction("maker", <<>>, << SReturn(Some(EVariable(b + 21, "one"))) >>) >>
    \o Placed(b, place, CalleeStmt(b, kind))
    \o << PrintNumber(b + 22, 9) >>

\* the texts of the callee suite: every kind of callee at every place
CalleeTexts ==
    [i \in 1..Len(CalleeKinds) * Len(Places) |->
        Text("Called",
             [kind |-> CalleeKinds[((i - 1) \div Len(Places)) + 1],
              place |-> Places[((i - 1) % Len(Places)) + 1]],
             Called(27000 + 30 * i, CalleeKinds[((i - 1) \div Len(Places)) + 1],
                    Places[((i - 1) % Len(Places)) + 1]))]

\* the statement of a text of the abort suite: one of the failing statements, or
\* print 5; for "none"
AbortingStmt(b, kind) ==
    IF kind = "none" THEN PrintNumber(b + 1, 5) ELSE FailingStmt(b, kind)

\* print 2; <stmt> print 3;
Between(b, stmt) == << PrintNumber(b + 31, 2), stmt, PrintNumber(b + 32, 3) >>

\* the statement between prints at its place:
\* top:    print 2; <stmt> print 3;
\* block:  { print 2; <stmt> print 3; }
\* blocks: { print 2; { <stmt> print 3; } print 4; }
\* if:     if (true) { print 2; <stmt> print 3; }
\* else:   if (false) print 0; else { print 2; <stmt> print 3; }
\* while:  while (true) { print 2; <stmt> print 3; }
\* loop:   while (true) { print v; if (v == 2) <stmt> v = v + 1; print 3; }
Surrounded(b, place, stmt) ==
    CASE place = "top" -> Between(b, stmt)
      [] place = "block" -> << SBlock(Between(b, stmt)) >>
      [] place = "blocks" ->
            << SBlock(<< PrintNumber(b + 31, 2),
                         SBlock(<< stmt, PrintNumber(b + 32, 3) >>),
                         PrintNumber(b + 33, 4) >>) >>
      [] place = "if" -> << SIf(ELiteral(b + 34, True), SBlock(Between(b, stmt)), None) >>
      [] place = "else" ->
            << SIf(ELiteral(b + 34, False), PrintNumber(b + 35, 0),
                   Some(SBlock(Between(b, stmt)))) >>
      [] place = "while" -> << SWhile(ELiteral(b + 34, True), SBlock(Between(b, stmt))) >>
      [] place = "loop" ->
            << SWhile(ELiteral(b + 34, True),
                      SBlock(<< SPrint(EVariable(b + 35, "v")),
                                SIf(EBinary(b + 36, EVariable(b + 37, "v"), "EqualEqual",
                                            ELiteral(b + 38, Number(2))),
                                    stmt, None),
                                SExpression(EAssign(b + 39, "v",
                                    EBinary(b + 40, EVariable(b + 41, "v"), "Plus",
                                            ELiteral(b + 42, Number(1))))),
                                PrintNumber(b + 32, 3) >>)) >>

\* var v = 1;  fun g(a) { }  print 1;  <the statement at its place>  print 9;
Aborting(b, kind, place) ==
    << SVar("v", ELiteral(b + 20, Number(1))), SFunction("g", << "a" >>, <<>>),
       PrintNumber(b + 21, 1) >>
    \o Surrounded(b, place, AbortingStmt(b, kind))
    \o << PrintNumber(b + 22, 9) >>

\* the statements that fail with an error value and leave no binding behind
AbortKinds == <<"undeclared", "arity", "operands", "notcallable">>

AbortPlaces == <<"top", "block", "blocks", "if", "else", "while", "loop">>

\* the places where the text without a failing statement ends
EndingPlaces == <<"top", "block", "blocks", "if", "else">>

\* the texts that fail at run time between prints, and the same texts without failure
AbortTexts ==
    [i \in 1..(Len(AbortKinds) * Len(AbortPlaces)) |->
        LET kind == AbortKinds[((i - 1) \div Len(AbortPlaces)) + 1]
            place == AbortPlaces[((i - 1) % Len(AbortPlaces)) + 1]
        IN  Text("Aborting", [kind |-> kind, place |-> place],
                 Aborting(23000 + 100 * i, kind, place))]
    \o [i \in 1..Len(EndingPlaces) |->
            Text("Aborting", [kind |-> "none", place |-> EndingPlaces[i]],
                 Aborting(26000 + 100 * i, "none", EndingPlaces[i]))]

\* the source texts of a suite; each counts its expression ids from a base of its own
\* the texts of the failure suite: every runtime error at every place
FailureTexts ==
    [i \in 1..Len(FailureKinds) * Len(Places) |->
        Text("Failing",
             [kind |-> FailureKinds[((i - 1) \div Len(Places)) + 1],
              place |-> Places[((i - 1) % Len(Places)) + 1]],
             Failing(14000 + 30 * i, FailureKinds[((i - 1) \div Len(Places)) + 1],
                     Places[((i - 1) % Len(Places)) + 1]))]
    \o << Text("AssignInInitializer", 0, AssignInInitializer(15000)) >>

\* the texts of the boolean suite: a Callable in every boolean context at every place,
\* a text that fails with an undeclared variable and a text with a number as condition
BooleanTexts ==
    [i \in 1..Len(BooleanKinds) * Len(Places) |->
        Text("Failing",
             [kind |-> BooleanKinds[((i - 1) \div Len(Places)) + 1],
              place |-> Places[((i - 1) % Len(Places)) + 1]],
             Failing(16000 + 30 * i, BooleanKinds[((i - 1) \div Len(Places)) + 1],
                     Places[((i - 1) % Len(Places)) + 1]))]
    \o << Text("Failing", [kind |-> "undeclared", place |-> "top"],
               Failing(17000, "undeclared", "top")),
          Text("Failing", [kind |-> "number", place |-> "function"],
               Failing(17100, "number", "function")) >>

Catalogue(s) ==
    CASE s = "scope" ->
            << Text("ShadowInBlock", 0, ShadowInBlock(100, 1, 2)),
               Text("ShadowGlobal", 0, ShadowGlobal(200, 1, 2)),
               Text("ShadowDeep", 0, ShadowDeep(300, 2, 1)),
               Text("UseInBinary", 0, UseInBinary(400)),
               Text("UseInUnary", 0, UseInUnary(500)),
               Text("UseInGrouping", 0, UseInGrouping(600)),
               Text("UseInLogical", 0, UseInLogical(700)),
               Text("UseInArgument", 0, UseInArgument(800)),
               Text("AssignAcrossScopes", 0, AssignAcrossScopes(900)),
               Text("InitializerAcrossScopes", 0, InitializerAcrossScopes(1000)),
               Text("AssignOuter", 0, AssignOuter(1100)),
               Text("GlobalFromBlocks", 0, GlobalFromBlocks(1200)) >>
      [] s = "closure" ->
            [k \in 1..MaxCalls |-> Text("Counter", k, Counter(2000 + 100 * k, k))]
            \o [k \in 1..MaxCalls |-> Text("CounterReturn", k, CounterReturn(3000 + 100 * k, k))]
            \o [k \in 1..MaxCalls |-> Text("CounterInBlock", k, CounterInBlock(4000 + 100 * k, k))]
            \o << Text("TwoCounters", 0, TwoCounters(5000)),
                  Text("FreshLocals", 0, FreshLocals(5100)) >>
      [] s = "call" ->
            << Text("TooFew", 0, TooFew(8000)),
               Text("TooMany", 0, TooMany(8100)),
               Text("Exact", 0, Exact(8200)),
               Text("ZeroGivenOne", 0, ZeroGivenOne(8300)),
               Text("NativeArity", 0, NativeArity(8400)),
               Text("Clock", 0, Clock(8500)),
               Text("TooFewInBlock", 0, TooFewInBlock(8600)),
               Text("TooFewInFunction", 0, TooFewInFunction(8700)),
               Text("TooFewWithEffect", 0, TooFewWithEffect(8800)),
               Text("TooFewWithCall", 0, TooFewWithCall(8900)),
               Text("TooManyWithEffect", 0, TooManyWithEffect(8950)) >>
      [] s = "logic" -> LogicTexts
      [] s = "resolution" -> ResolutionTexts
      [] s = "abort" -> AbortTexts
      [] s = "loop" ->
            [k \in 1..Len(ReturnValues) |->
                Text("LoopForever", ReturnValues[k], LoopForever(20000 + 100 * k, ReturnValues[k]))]
            \o [k \in 1..MaxCalls |-> Text("LoopBounded", k, LoopBounded(20500 + 100 * k, k))]
            \o [k \in 1..MaxCalls |-> Text("CountingLoop", k, CountingLoop(21000 + 100 * k, k))]
      [] s = "anon" ->
            [i \in 1..Len(FunctionCases) * 2 |->
                Text("FunctionForm",
                     [form |-> FunctionForms[((i - 1) % 2) + 1],
                      case |-> FunctionCases[((i - 1) \div 2) + 1]],
                     FunctionForm(19000 + 20 * i, FunctionForms[((i - 1) % 2) + 1],
                                  FunctionCases[((i - 1) \div 2) + 1]))]
      [] s = "lexical" ->
            [i \in 1..Len(LexicalCases) |->
                Text("FreeVariable", LexicalCases[i],
                     FreeVariable(18000 + 20 * i, LexicalCases[i].scope,
                                  LexicalCases[i].caller, LexicalCases[i].use))]
            \o << Text("UnboundVariable", 0, UnboundVariable(18500)) >>
      [] s = "failure" -> FailureTexts
      [] s = "callee" -> CalleeTexts
      [] s = "boolean" -> BooleanTexts
      [] s = "recursion" ->
            [k \in 1..MaxFib + 1 |-> Text("Fib", k - 1, Fib(12000 + 100 * k, k - 1))]
            \o [k \in 1..MaxFib |-> Text("Countdown", k, Countdown(13000 + 100 * k, k))]
      [] s = "return" ->
            [k \in 1..Len(ReturnValues) |->
                Text("ReturnDirect", ReturnValues[k], ReturnDirect(10000 + 100 * k, ReturnValues[k]))]
            \o << Text("ReturnInBlock", 0, ReturnInBlock(10500)),
                  Text("ReturnInIf", 0, ReturnInIf(10600)),
                  Text("ReturnInElse", 0, ReturnInElse(10700)),
                  Text("ReturnInIfBlock", 0, ReturnInIfBlock(10800)),
                  Text("ReturnInWhile", 0, ReturnInWhile(10900)),
                  Text("NoReturn", 0, NoReturn(11000)),
                  Text("EmptyBody", 0, EmptyBody(11100)),
                  Text("BareReturn", 0, BareReturn(11200)),
                  Text("BareReturnInIf", 0, BareReturnInIf(11300)),
                  Text("NestedReturn", 0, NestedReturn(11400)),
                  Text("VeryNestedReturn", 0, VeryNestedReturn(11500)),
                  Text("NestedBareReturn", 0, NestedBareReturn(11600)) >>
      [] s = "initializer" ->
            << Text("SelfInit", 0, InitializedInBlock(EVariable(6001, "a"))),
               Text("SelfInitShadow", 0, SelfInitShadow(6100)),
               Text("SelfInitBinary", 0,
                    InitializedInBlock(EBinary(6201, EVariable(6202, "a"), "Plus",
                                               ELiteral(6203, Number(1))))),
               Text("SelfInitUnary", 0,
                    InitializedInBlock(EUnary(6301, "Minus", EVariable(6302, "a")))),
               Text("SelfInitGrouping", 0,
                    InitializedInBlock(EGrouping(6401, EVariable(6402, "a")))),
               Text("SelfInitLogical", 0,
                    InitializedInBlock(ELogical(6501, ELiteral(6502, Nil), "Or",
                                                EVariable(6503, "a")))),
               Text("SelfInitArgument", 0, SelfInitArgument(6600)),
               Text("SelfInitInFunction", 0, SelfInitInFunction(6700)),
               Text("SelfInitCallee", 0,
                    InitializedInBlock(ECall(6801, EVariable(6802, "a"), <<>>))),
               Text("SelfInitCalleeShadow", 0, SelfInitCalleeShadow(6900)),
               Text("OtherInit", 0, OtherInit(7000)) >>

----------------------------------------------------------------------------
(* main.rs: run_prompt and run, on one Interpreter *)

\* Interpreter::new
NewInterpreter ==
    [environment |-> 1, specials |-> 1, locals |-> "shared"]

\* the machine state right after Interpreter::new
NewMachine ==
    [heap |-> <<NewEnvironment>>, specials |-> <<EmptyMap>>, locals |-> EmptyMap,
     out |-> <<>>, trace |-> <<>>, writes |-> <<>>, stack |-> <<>>, fuel |-> MaxFuel,
     now |-> 1]

\* run_prompt before the first line is read
InitSuite(s) ==
    /\ interpreter = NewMachine
    /\ top = NewInterpreter
    /\ phase = "prompt"
    /\ suite = s
    /\ line = Text("", 0, <<>>)
    /\ pc = 1
    /\ lines = 0
    /\ result = [r |-> "none"]
    /\ probe = [op |-> "none"]

\* the readings std::time gives during a run; the texts of the other suites than
\* "call" never reach clock_impl
Clocks(s) == IF s = "call" THEN 1..MaxClock ELSE {1}

\* run_prompt reads a line; run scans and parses it (Scanner, Parser)
ReadLine ==
    /\ phase = "prompt"
    /\ lines < MaxLines
    /\ \E i \in 1..Len(Catalogue(suite)), t \in Clocks(suite) :
          /\ line' = Catalogue(suite)[i]
          /\ interpreter' = [interpreter EXCEPT !.out = <<>>, !.trace = <<>>,
                                                !.writes = <<>>, !.stack = <<>>,
                                                !.fuel = MaxFuel,
                                                !.now = t]
    /\ phase' = "parsed"
    /\ pc' = 1
    /\ lines' = lines + 1
    /\ result' = [r |-> "running"]
    /\ UNCHANGED <<top, suite, probe>>

\* a run that goes on to interpret the statements after a resolution error
ResolvedKeepsGoing(rs) ==
    /\ interpreter' = [interpreter EXCEPT !.locals = rs.locals, !.writes = rs.writes,
                                          !.stack = rs.stack]
    /\ phase' = CASE rs.r \in {"ok", "err"} -> "resolved"
                  [] OTHER -> "aborted"
    /\ result' = IF rs.r = "ok" THEN result
                 ELSE [r |-> rs.r, stage |-> "resolve", msg |-> rs.msg]

\* run: what follows resolver.resolve_many(stmts)? once the resolver is in state rs
Resolved(rs) ==
    /\ interpreter' = [interpreter EXCEPT !.locals = rs.locals, !.writes = rs.writes,
                                          !.stack = rs.stack]
    /\ phase' = CASE rs.r = "ok" -> "resolved"
                  [] rs.r = "err" -> "prompt"
                  [] OTHER -> "aborted"
    /\ result' = IF rs.r = "ok" THEN result
                 ELSE [r |-> rs.r, stage |-> "resolve", msg |-> rs.msg]

\* run: Resolver::new and resolver.resolve_many(stmts)?
ResolveLine ==
    /\ phase = "parsed"
    /\ Resolved(ResolveMany(NewResolver(interpreter.locals), line.stmts))
    /\ UNCHANGED <<top, suite, line, pc, lines, probe>>

\* run: what follows the interpretation of one statement of the line, `?` included
Interpreted(done) ==
    /\ interpreter' = done.st
    /\ top' = done.it
    /\ phase' = CASE done.r = "ok" -> "resolved"
                  [] done.r = "err" -> "prompt"
                  [] done.r = "panic" -> "aborted"
                  [] OTHER -> "diverged"
    /\ pc' = IF done.r = "ok" THEN pc + 1 ELSE pc
    /\ result' = IF done.r = "ok" THEN result
                 ELSE [r |-> done.r, stage |-> "interpret", msg |-> done.msg]

\* run: one iteration of the loop of interpreter.interpret(stmts) over the
\* statements of the line
InterpretNext ==
    /\ phase = "resolved"
    /\ pc <= Len(line.stmts)
    /\ Interpreted(InterpretStmt(interpreter, top, line.stmts[pc]))
    /\ UNCHANGED <<suite, line, lines, probe>>

\* run: interpret has gone through every statement and returns Ok(())
InterpretEnd ==
    /\ phase = "resolved"
    /\ pc > Len(line.stmts)
    /\ phase' = "prompt"
    /\ result' = [r |-> "ok"]
    /\ UNCHANGED <<interpreter, top, suite, line, pc, lines, probe>>

Next == ReadLine \/ ResolveLine \/ InterpretNext \/ InterpretEnd

\* sessions over the texts that call what is not a plain variable
SpecCallee == InitSuite("callee") /\ [][Next]_vars

\* sessions over the texts about block scopes
SpecScope == InitSuite("scope") /\ [][Next]_vars

\* sessions over the texts about initializers that read the declared name
SpecInitializer == InitSuite("initializer") /\ [][Next]_vars

\* sessions over the texts about the number of arguments of a call
SpecCall == InitSuite("call") /\ [][Next]_vars

\* sessions over the texts about `and` and `or`
SpecLogic == InitSuite("logic") /\ [][Next]_vars

\* sessions over the texts about closures
SpecClosure == InitSuite("closure") /\ [][Next]_vars

\* run_prompt fed with the recursive texts
SpecRecursion == InitSuite("recursion") /\ [][Next]_vars

\* run_prompt fed with the texts that fail at run time
SpecFailure == InitSuite("failure") /\ [][Next]_vars

\* run_prompt fed with the texts that use a Callable as a boolean
SpecBoolean == InitSuite("boolean") /\ [][Next]_vars

\* run_prompt fed with the texts whose callers have locals named like a free variable
SpecLexical == InitSuite("lexical") /\ [][Next]_vars

\* run_prompt fed with the texts that declare one function in its two forms
SpecAnon == InitSuite("anon") /\ [][Next]_vars

\* run_prompt fed with the texts the resolver rejects
SpecResolution == InitSuite("resolution") /\ [][Next]_vars

\* run_prompt fed with the texts that fail at run time between prints
SpecAbort == InitSuite("abort") /\ [][Next]_vars

\* run_prompt fed with the texts that loop
SpecLoop == InitSuite("loop") /\ [][Next]_vars

\* run_prompt fed with the texts about return
SpecReturn == InitSuite("return") /\ [][Next]_vars

----------------------------------------------------------------------------
(* Environment on its own: frames are made, linked and bound, and get and   *)
(* assign are called on any frame with any distance.                        *)

\* the names and values the operations are called with
ProbeNames == {"a", "clock"}

ProbeValues == {Number(1), Number(2)}

ProbeDistances == {None} \cup {Some(d) : d \in 0..MaxFrames}

\* one Interpreter::new, nothing run
InitEnvironment ==
    /\ interpreter = NewMachine
    /\ top = NewInterpreter
    /\ phase = "probe"
    /\ suite = "environment"
    /\ line = Text("", 0, <<>>)
    /\ pc = 1
    /\ lines = 0
    /\ result = [r |-> "none"]
    /\ probe = [op |-> "none"]

\* Environment::new, and `enclosing` set to an existing frame as by Stmt::Block,
\* for_closure and for_anon, the only places that make a frame after Interpreter::new
EnvNew ==
    /\ Len(interpreter.heap) < MaxFrames
    /\ \E parent \in 1..Len(interpreter.heap) :
          /\ interpreter' = [interpreter EXCEPT
                                !.heap = Append(@, [NewEnvironment EXCEPT !.enclosing = parent])]
          /\ probe' = [op |-> "new", parent |-> parent]
    /\ UNCHANGED <<top, phase, suite, line, pc, lines, result>>

\* Environment::define
EnvDefine ==
    /\ \E f \in 1..Len(interpreter.heap), value \in ProbeValues :
          /\ interpreter' = [interpreter EXCEPT !.heap = Define(@, f, "a", value)]
          /\ probe' = [op |-> "define", f |-> f, name |-> "a", value |-> value]
    /\ UNCHANGED <<top, phase, suite, line, pc, lines, result>>

\* what a call of Environment::get leaves to look at
Got(f, name, distance, res) ==
    [op |-> "get", f |-> f, name |-> name, distance |-> distance,
     r |-> res.r, v |-> res.v, frame |-> res.frame]

\* Environment::get
EnvGet ==
    /\ \E f \in 1..Len(interpreter.heap), name \in ProbeNames, distance \in ProbeDistances :
          probe' = Got(f, name, distance, Get(interpreter.heap, f, name, distance))
    /\ UNCHANGED <<interpreter, top, phase, suite, line, pc, lines, result>>

\* what a call of Environment::assign leaves to look at (`before` is the heap the
\* call was made on), and the heap after it
Assigned(f, name, value, distance, res) ==
    /\ interpreter' = [interpreter EXCEPT !.heap = res.heap]
    /\ probe' = [op |-> "assign", f |-> f, name |-> name, value |-> value,
                 distance |-> distance, r |-> res.r, b |-> res.b, frame |-> res.frame,
                 before |-> interpreter.heap]

\* Environment::assign
EnvAssign ==
    /\ \E f \in 1..Len(interpreter.heap), value \in ProbeValues, distance \in ProbeDistances :
          Assigned(f, "a", value, distance, Assign(interpreter.heap, f, "a", value, distance))
    /\ UNCHANGED <<top, phase, suite, line, pc, lines, result>>

NextEnvironment == EnvNew \/ EnvDefine \/ EnvGet \/ EnvAssign

\* any sequence of operations on the frames of one heap
SpecEnvironment == InitEnvironment /\ [][NextEnvironment]_vars

----------------------------------------------------------------------------
(* The operators of Expr::evaluate on their own: Binary and Unary are       *)
(* applied to any pair of evaluated operands.                               *)

\* runtime values of every variant: 0, 1, "", "1", true, false, nil, clock
OperandValues ==
    {Number(0), Number(1), StringValue(<<>>), StringValue(<<49>>), True, False, Nil,
     Callable("clock", 0, [kind |-> "native"])}

BinaryOperators ==
    {"Plus", "Minus", "Star", "Slash", "Greater", "GreaterEqual", "Less", "LessEqual",
     "BangEqual", "EqualEqual"}

UnaryOperators == {"Minus", "Bang"}

\* one Interpreter::new, nothing run
InitOperators ==
    /\ interpreter = NewMachine
    /\ top = NewInterpreter
    /\ phase = "probe"
    /\ suite = "operators"
    /\ line = Text("", 0, <<>>)
    /\ pc = 1
    /\ lines = 0
    /\ result = [r |-> "none"]
    /\ probe = [op |-> "none"]

\* what the match of Expr::Binary leaves to look at
BinaryApplied(left, operator, right, res) ==
    [op |-> "binary", left |-> left, operator |-> operator, right |-> right,
     r |-> res.r, v |-> res.v, msg |-> res.msg]

\* Expr::evaluate, Binary, once both operands are evaluated
BinaryApply ==
    /\ \E left \in OperandValues, right \in OperandValues, operator \in BinaryOperators :
          probe' = BinaryApplied(left, operator, right,
                                 BinaryOp(interpreter, left, operator, right))
    /\ UNCHANGED <<interpreter, top, phase, suite, line, pc, lines, result>>

\* what the match of Expr::Unary leaves to look at
UnaryApplied(operator, right, res) ==
    [op |-> "unary", operator |-> operator, right |-> right,
     r |-> res.r, v |-> res.v, msg |-> res.msg]

\* Expr::evaluate, Unary, once the operand is evaluated
UnaryApply ==
    /\ \E right \in OperandValues, operator \in UnaryOperators :
          probe' = UnaryApplied(operator, right, UnaryOp(interpreter, operator, right))
    /\ UNCHANGED <<interpreter, top, phase, suite, line, pc, lines, result>>

NextOperators == BinaryApply \/ UnaryApply

\* any sequence of operator applications
SpecOperators == InitOperators /\ [][NextOperators]_vars

----------------------------------------------------------------------------
(* parser.rs: Parser.  The parser holds the tokens of the scanner, the     *)
(* last of which is Eof, and `current`, the position of the next token     *)
(* (counted from 1 here).  A parsing function returns the Result it made   *)
(* and the position it left `current` at.  The expressions of this parser  *)
(* carry no id.                                                            *)

\* a Token of the scanner
Token(token_type, lexeme) == [token_type |-> token_type, lexeme |-> lexeme]

\* LiteralValue::from_token
FromToken(token) ==
    CASE token.token_type = "Number" ->
            Number(CASE token.lexeme = "0" -> 0 [] token.lexeme = "1" -> 1
                     [] token.lexeme = "2" -> 2 [] OTHER -> 3)
      [] token.token_type = "StringLit" -> StringValue(<<>>)
      [] token.token_type = "False" -> False
      [] token.token_type = "True" -> True
      [] OTHER -> Nil

PLiteral(value) == [kind |-> "Literal", value |-> value]

PVariable(name) == [kind |-> "Variable", name |-> name]

PAssign(name, value) == [kind |-> "Assign", name |-> name, value |-> value]

PGrouping(expression) == [kind |-> "Grouping", expression |-> expression]

PUnary(operator, right) == [kind |-> "Unary", operator |-> operator, right |-> right]

\* Binary { left, operator, right } and Logical { left, operator, right }
PInfix(kind, left, operator, right) ==
    [kind |-> kind, left |-> left, operator |-> operator, right |-> right]

\* Ok(v), with the parser left at current
Parsed(v, current) == [r |-> "ok", v |-> v, current |-> current, msg |-> ""]

\* Err(msg), with the parser left at current
ParseError(msg, current) == [r |-> "err", v |-> Nil, current |-> current, msg |-> msg]

\* Parser::peek
Peek(tokens, current) == tokens[current]

\* Parser::is_at_end
IsAtEnd(tokens, current) == Peek(tokens, current).token_type = "Eof"

\* Parser::check
Check(tokens, current, typ) == Peek(tokens, current).token_type = typ

\* Parser::advance: the position after it
Advance(tokens, current) == IF IsAtEnd(tokens, current) THEN current ELSE current + 1

\* Parser::match_token: whether it matches; it then advances by one
MatchToken(tokens, current, typ) ==
    ~IsAtEnd(tokens, current) /\ Check(tokens, current, typ)

\* Parser::match_tokens
MatchTokens(tokens, current, typs) == \E typ \in typs : MatchToken(tokens, current, typ)

\* Parser::consume
Consume(tokens, current, token_type, msg) ==
    IF Check(tokens, current, token_type)
    THEN Parsed(tokens[current], Advance(tokens, current))
    ELSE ParseError(msg, current)

\* Some(v) of an Ok(v)
Optional(res) == IF res.r # "ok" THEN res ELSE [res EXCEPT !.v = Some(res.v)]

RECURSIVE Expression(_, _)
RECURSIVE Assignment(_, _)
RECURSIVE AssignmentOf(_, _)
RECURSIVE Or(_, _)
RECURSIVE OrLoop(_, _)
RECURSIVE And(_, _)
RECURSIVE AndLoop(_, _)
RECURSIVE Equality(_, _)
RECURSIVE EqualityLoop(_, _)
RECURSIVE Comparison(_, _)
RECURSIVE ComparisonLoop(_, _)
RECURSIVE Term(_, _)
RECURSIVE TermLoop(_, _)
RECURSIVE Factor(_, _)
RECURSIVE FactorLoop(_, _)
RECURSIVE Unary(_, _)
RECURSIVE Primary(_, _)
RECURSIVE Declaration(_, _)
RECURSIVE VarDeclaration(_, _)
RECURSIVE Statement(_, _)
RECURSIVE ForStatement(_, _)
RECURSIVE ForInitializer(_, _)
RECURSIVE ForClause(_, _, _, _)
RECURSIVE ForCondition(_, _)
RECURSIVE ForIncrement(_, _, _)
RECURSIVE ForBody(_, _, _, _)
RECURSIVE WhileStatement(_, _)
RECURSIVE WhileBodyOf(_, _)
RECURSIVE IfStatement(_, _)
RECURSIVE IfThen(_, _)
RECURSIVE IfElse(_, _, _)
RECURSIVE BlockStatement(_, _, _)
RECURSIVE BlockNext(_, _, _)
RECURSIVE PrintStatement(_, _)
RECURSIVE ExpressionStatement(_, _)

\* Parser::expression
Expression(tokens, current) == Assignment(tokens, current)

\* Parser::assignment after `self.assignment()?` for the value
Assigning(expr, value) ==
    IF value.r # "ok" THEN value
    ELSE IF expr.v.kind = "Variable"
    THEN Parsed(PAssign(expr.v.name, value.v), value.current)
    ELSE ParseError("Invalid assignment target.", value.current)

\* Parser::assignment after `self.or()?`
AssignmentOf(tokens, expr) ==
    IF expr.r # "ok" THEN expr
    ELSE IF MatchToken(tokens, expr.current, "Equal")
    THEN Assigning(expr, Assignment(tokens, expr.current + 1))
    ELSE expr

\* Parser::assignment
Assignment(tokens, current) == AssignmentOf(tokens, Or(tokens, current))

\* the body of the while loops of or, and, equality, comparison, term and factor
\* after the right operand was parsed
Joined(kind, expr, operator, right) ==
    IF right.r # "ok" THEN right
    ELSE Parsed(PInfix(kind, expr.v, operator, right.v), right.current)

\* Parser::or: the while loop
OrLoop(tokens, expr) ==
    IF expr.r # "ok" \/ ~MatchToken(tokens, expr.current, "Or") THEN expr
    ELSE OrLoop(tokens, Joined("Logical", expr, tokens[expr.current],
                               And(tokens, expr.current + 1)))

\* Parser::or
Or(tokens, current) == OrLoop(tokens, And(tokens, current))

\* Parser::and: the while loop
AndLoop(tokens, expr) ==
    IF expr.r # "ok" \/ ~MatchToken(tokens, expr.current, "And") THEN expr
    ELSE AndLoop(tokens, Joined("Logical", expr, tokens[expr.current],
                                Equality(tokens, expr.current + 1)))

\* Parser::and
And(tokens, current) == AndLoop(tokens, Equality(tokens, current))

\* Parser::equality: the while loop
EqualityLoop(tokens, expr) ==
    IF expr.r # "ok" \/ ~MatchTokens(tokens, expr.current, {"BangEqual", "EqualEqual"})
    THEN expr
    ELSE EqualityLoop(tokens, Joined("Binary", expr, tokens[expr.current],
                                     Comparison(tokens, expr.current + 1)))

\* Parser::equality
Equality(tokens, current) == EqualityLoop(tokens, Comparison(tokens, current))

\* Parser::comparison: the while loop
ComparisonLoop(tokens, expr) ==
    IF \/ expr.r # "ok"
       \/ ~MatchTokens(tokens, expr.current, {"Greater", "GreaterEqual", "Less", "LessEqual"})
    THEN expr
    ELSE ComparisonLoop(tokens, Joined("Binary", expr, tokens[expr.current],
                                       Term(tokens, expr.current + 1)))

\* Parser::comparison
Comparison(tokens, current) == ComparisonLoop(tokens, Term(tokens, current))

\* Parser::term: the while loop
TermLoop(tokens, expr) ==
    IF expr.r # "ok" \/ ~MatchTokens(tokens, expr.current, {"Minus", "Plus"}) THEN expr
    ELSE TermLoop(tokens, Joined("Binary", expr, tokens[expr.current],
                                 Factor(tokens, expr.current + 1)))

\* Parser::term
Term(tokens, current) == TermLoop(tokens, Factor(tokens, current))

\* Parser::factor: the while loop
FactorLoop(tokens, expr) ==
    IF expr.r # "ok" \/ ~MatchTokens(tokens, expr.current, {"Slash", "Star"}) THEN expr
    ELSE FactorLoop(tokens, Joined("Binary", expr, tokens[expr.current],
                                   Unary(tokens, expr.current + 1)))

\* Parser::factor
Factor(tokens, current) == FactorLoop(tokens, Unary(tokens, current))

\* Parser::unary after `self.unary()?` for the operand
UnaryOf(operator, rhs) ==
    IF rhs.r # "ok" THEN rhs ELSE Parsed(PUnary(operator, rhs.v), rhs.current)

\* Parser::unary
Unary(tokens, current) ==
    IF MatchTokens(tokens, current, {"Bang", "Minus"})
    THEN UnaryOf(tokens[current], Unary(tokens, current + 1))
    ELSE Primary(tokens, current)

\* an Ok(v) followed by consume(token_type, msg)?, which leaves v as it is
Closed(tokens, res, token_type, msg) ==
    IF res.r # "ok" THEN res
    ELSE IF Consume(tokens, res.current, token_type, msg).r # "ok"
    THEN Consume(tokens, res.current, token_type, msg)
    ELSE [res EXCEPT !.current = Consume(tokens, res.current, token_type, msg).current]

\* Parser::primary, LeftParen, after `self.expression()?`
GroupingOf(tokens, expr) ==
    IF expr.r # "ok" THEN expr
    ELSE Closed(tokens, [expr EXCEPT !.v = PGrouping(expr.v)], "RightParen", "Expected ')'")

\* Parser::primary
Primary(tokens, current) ==
    CASE Check(tokens, current, "LeftParen") ->
            GroupingOf(tokens, Expression(tokens, current + 1))
      [] Peek(tokens, current).token_type \in {"False", "True", "Nil", "Number", "StringLit"} ->
            Parsed(PLiteral(FromToken(tokens[current])), current + 1)
      [] Check(tokens, current, "Identifier") ->
            Parsed(PVariable(tokens[current]), current + 1)
      [] OTHER -> ParseError("Expected expression", current)

\* Parser::expression_statement and Parser::print_statement after `self.expression()?`
Terminated(tokens, expr, kind, msg) ==
    IF expr.r # "ok" THEN expr
    ELSE Closed(tokens, [expr EXCEPT !.v = [kind |-> kind, expression |-> expr.v]],
                "Semicolon", msg)

\* Parser::expression_statement
ExpressionStatement(tokens, current) ==
    Terminated(tokens, Expression(tokens, current), "Expression",
               "Expected ';' after expression.")

\* Parser::print_statement
PrintStatement(tokens, current) ==
    Terminated(tokens, Expression(tokens, current), "Print", "Expected ';' after value.")

\* Parser::var_declaration once the initializer is there
VarInitialized(tokens, name, initializer) ==
    IF initializer.r # "ok" THEN initializer
    ELSE Closed(tokens, [initializer EXCEPT !.v = SVar(name, initializer.v)],
                "Semicolon", "Expected ';' after variable declaration")

\* Parser::var_declaration after `self.consume(Identifier, ..)?`
VarNamed(tokens, token) ==
    IF token.r # "ok" THEN token
    ELSE IF MatchToken(tokens, token.current, "Equal")
    THEN VarInitialized(tokens, token.v, Expression(tokens, token.current + 1))
    ELSE VarInitialized(tokens, token.v, Parsed(PLiteral(Nil), token.current))

\* Parser::var_declaration
VarDeclaration(tokens, current) ==
    VarNamed(tokens, Consume(tokens, current, "Identifier", "Expected variable name"))

\* Parser::declaration
Declaration(tokens, current) ==
    IF MatchToken(tokens, current, "Var") THEN VarDeclaration(tokens, current + 1)
    ELSE Statement(tokens, current)

\* Parser::statement
Statement(tokens, current) ==
    CASE MatchToken(tokens, current, "Print") -> PrintStatement(tokens, current + 1)
      [] MatchToken(tokens, current, "LeftBrace") -> BlockStatement(tokens, current + 1, <<>>)
      [] MatchToken(tokens, current, "If") -> IfStatement(tokens, current + 1)
      [] MatchToken(tokens, current, "While") -> WhileStatement(tokens, current + 1)
      [] MatchToken(tokens, current, "For") -> ForStatement(tokens, current + 1)
      [] OTHER -> ExpressionStatement(tokens, current)

\* Parser::block_statement: the while loop after `self.declaration()?`
BlockNext(tokens, decl, statements) ==
    IF decl.r # "ok" THEN decl
    ELSE BlockStatement(tokens, decl.current, Append(statements, decl.v))

\* Parser::block_statement, with the statements gathered so far
BlockStatement(tokens, current, statements) ==
    IF ~Check(tokens, current, "RightBrace") /\ ~IsAtEnd(tokens, current)
    THEN BlockNext(tokens, Declaration(tokens, current), statements)
    ELSE Closed(tokens, Parsed(SBlock(statements), current), "RightBrace",
                "Expected '}' after a block")

\* a parenthesised expression: consume(LeftParen, open)?, expression()?,
\* consume(RightParen, close)?
Parenthesised(tokens, current, open, close) ==
    IF Consume(tokens, current, "LeftParen", open).r # "ok"
    THEN Consume(tokens, current, "LeftParen", open)
    ELSE Closed(tokens, Expression(tokens, current + 1), "RightParen", close)

\* Ok(Stmt::WhileStmt { condition, body })
Attached(condition, body) ==
    IF body.r # "ok" THEN body ELSE [body EXCEPT !.v = SWhile(condition, body.v)]

\* Parser::while_statement after the condition: the body
WhileBodyOf(tokens, condition) ==
    IF condition.r # "ok" THEN condition
    ELSE Attached(condition.v, Statement(tokens, condition.current))

\* Parser::while_statement
WhileStatement(tokens, current) ==
    WhileBodyOf(tokens, Parenthesised(tokens, current, "Expected '(' after 'while'",
                                      "Expected ')' after condition."))

\* Parser::if_statement after the else branch, when there is one
IfBuilt(predicate, then, els) ==
    IF els.r # "ok" THEN els ELSE [els EXCEPT !.v = SIf(predicate, then, Some(els.v))]

\* Parser::if_statement after the then branch
IfElse(tokens, predicate, then) ==
    IF then.r # "ok" THEN then
    ELSE IF MatchToken(tokens, then.current, "Else")
    THEN IfBuilt(predicate, then.v, Statement(tokens, then.current + 1))
    ELSE [then EXCEPT !.v = SIf(predicate, then.v, None)]

\* Parser::if_statement after the predicate
IfThen(tokens, predicate) ==
    IF predicate.r # "ok" THEN predicate
    ELSE IfElse(tokens, predicate.v, Statement(tokens, predicate.current))

\* Parser::if_statement
IfStatement(tokens, current) ==
    IfThen(tokens, Parenthesised(tokens, current, "Expected '(' after 'if'",
                                 "Expected ')' after if-predicate"))

\* a desugaring that runs the increment before the loop body
ForDesugarIncrementFirst(initializer, condition, increment, body) ==
    LET inner == IF increment # None
                 THEN SBlock(<<SExpression(increment[1]), body>>)
                 ELSE body
        loop == SWhile(IF condition = None THEN PLiteral(True) ELSE condition[1], inner)
    IN  IF initializer # None THEN SBlock(<<initializer[1], loop>>) ELSE loop

\* Parser::for_statement: the statement made of the three clauses and the body
ForDesugar(initializer, condition, increment, body) ==
    LET inner == IF increment # None
                 THEN SBlock(<<body, SExpression(increment[1])>>)
                 ELSE body
        loop == SWhile(IF condition = None THEN PLiteral(True) ELSE condition[1], inner)
    IN  IF initializer # None THEN SBlock(<<initializer[1], loop>>) ELSE loop

\* Parser::for_statement after `self.statement()?` for the body
ForDesugared(initializer, condition, increment, body) ==
    IF body.r # "ok" THEN body
    ELSE [body EXCEPT !.v = ForDesugar(initializer, condition, increment, body.v)]

\* Parser::for_statement: an optional expression and the token that closes it
ForClause(tokens, current, closing, msg) ==
    IF ~Check(tokens, current, closing)
    THEN Closed(tokens, Optional(Expression(tokens, current)), closing, msg)
    ELSE Closed(tokens, Parsed(None, current), closing, msg)

\* Parser::for_statement after the increment clause
ForBody(tokens, initializer, condition, increment) ==
    IF increment.r # "ok" THEN increment
    ELSE ForDesugared(initializer, condition, increment.v,
                      Statement(tokens, increment.current))

\* Parser::for_statement after the condition clause
ForIncrement(tokens, initializer, condition) ==
    IF condition.r # "ok" THEN condition
    ELSE ForBody(tokens, initializer, condition.v,
                 ForClause(tokens, condition.current, "RightParen",
                           "Expected ')' after for clauses."))

\* Parser::for_statement after the initializer clause
ForCondition(tokens, initializer) ==
    IF initializer.r # "ok" THEN initializer
    ELSE ForIncrement(tokens, initializer.v,
                      ForClause(tokens, initializer.current, "Semicolon",
                                "Expected ';' after loop condition."))

\* Parser::for_statement: the initializer clause
ForInitializer(tokens, current) ==
    CASE MatchToken(tokens, current, "Semicolon") -> Parsed(None, current + 1)
      [] MatchToken(tokens, current, "Var") -> Optional(VarDeclaration(tokens, current + 1))
      [] OTHER -> Optional(ExpressionStatement(tokens, current))

\* Parser::for_statement
ForStatement(tokens, current) ==
    IF Consume(tokens, current, "LeftParen", "Expected '(' after 'for'.").r # "ok"
    THEN Consume(tokens, current, "LeftParen", "Expected '(' after 'for'.")
    ELSE ForCondition(tokens, ForInitializer(tokens, current + 1))

RECURSIVE SynchronizeLoop(_, _)
\* Parser::synchronize: the while loop; previous() is the token before current
SynchronizeLoop(tokens, current) ==
    IF IsAtEnd(tokens, current) THEN current
    ELSE IF tokens[current - 1].token_type = "Semicolon" THEN current
    ELSE IF Peek(tokens, current).token_type \in
               {"Class", "Fun", "Var", "For", "If", "While", "Print", "Return"}
    THEN current
    ELSE SynchronizeLoop(tokens, Advance(tokens, current))

\* a synchronize that discards the offending token and looks no further
SynchronizeOneToken(tokens, current) == Advance(tokens, current)

\* Parser::synchronize: the position it leaves the parser at
Synchronize(tokens, current) == SynchronizeLoop(tokens, Advance(tokens, current))

----------------------------------------------------------------------------
(* Parser::parse, one iteration of its loop at a time, on token sequences  *)
(* that end with Eof: every sequence of up to MaxTokens tokens of a small  *)
(* alphabet, and the `for` statements with every combination of clauses.   *)

Eof == Token("Eof", "")

\* the tokens the arbitrary sequences are made of
TokenAlphabet ==
    { Token("Semicolon", ";"), Token("Print", "print"), Token("Var", "var"),
      Token("Identifier", "i"), Token("Equal", "="), Token("Number", "1"),
      Token("LeftBrace", "{"), Token("RightBrace", "}") }

\* the identifier i
TokenI == Token("Identifier", "i")

\* the clauses of the `for` texts: which initializer, condition, increment and body
ForClauses ==
    { [initializer |-> i, condition |-> c, increment |-> n, body |-> b] :
        i \in {"none", "var", "expr"}, c \in {"none", "some"}, n \in {"none", "some"},
        b \in {"print", "block"} }

\* for ( <initializer> <condition> ; <increment> ) <body>, with
\* initializer  ;  or  var i = 0 ;  or  i = 0 ;     condition  i < 2
\* increment  i = i + 1                             body  print i ;  or  { print i ; }
ForTokens(clauses) ==
    << Token("For", "for"), Token("LeftParen", "(") >>
    \o (CASE clauses.initializer = "none" -> << Token("Semicolon", ";") >>
          [] clauses.initializer = "var" ->
                << Token("Var", "var"), TokenI, Token("Equal", "="), Token("Number", "0"),
                   Token("Semicolon", ";") >>
          [] clauses.initializer = "expr" ->
                << TokenI, Token("Equal", "="), Token("Number", "0"),
                   Token("Semicolon", ";") >>)
    \o (IF clauses.condition = "none" THEN <<>>
        ELSE << TokenI, Token("Less", "<"), Token("Number", "2") >>)
    \o << Token("Semicolon", ";") >>
    \o (IF clauses.increment = "none" THEN <<>>
        ELSE << TokenI, Token("Equal", "="), TokenI, Token("Plus", "+"),
                Token("Number", "1") >>)
    \o << Token("RightParen", ")") >>
    \o (IF clauses.body = "print"
        THEN << Token("Print", "print"), TokenI, Token("Semicolon", ";") >>
        ELSE << Token("LeftBrace", "{"), Token("Print", "print"), TokenI,
                Token("Semicolon", ";"), Token("RightBrace", "}") >>)
    \o << Eof >>

\* the token sequences the parser is given
ParserTexts ==
    { [name |-> "Tokens", arg |-> 0, tokens |-> Append(ts, Eof)] :
        ts \in UNION { [1..n -> TokenAlphabet] : n \in 0..MaxTokens } }
    \cup { [name |-> "For", arg |-> clauses, tokens |-> ForTokens(clauses)] :
             clauses \in ForClauses }

\* Parser::new(tokens) and the two vectors of Parser::parse; `before` is where the
\* last iteration of the loop began and `failed` where its declaration failed
NewParser(text) ==
    [op |-> "parse", text |-> [name |-> text.name, arg |-> text.arg],
     tokens |-> text.tokens, current |-> 1, stmts |-> <<>>, errs |-> <<>>,
     at |-> "loop", before |-> 0, failed |-> 0, result |-> [r |-> "none"]]

\* the scanner has a token sequence to hand over
InitParser ==
    /\ interpreter = NewMachine
    /\ top = NewInterpreter
    /\ phase = "probe"
    /\ suite = "parser"
    /\ line = Text("", 0, <<>>)
    /\ pc = 1
    /\ lines = 0
    /\ result = [r |-> "none"]
    /\ probe = [op |-> "none"]

\* Parser::new on one of the token sequences
ParserNew ==
    /\ probe.op = "none"
    /\ \E text \in ParserTexts : probe' = NewParser(text)
    /\ UNCHANGED <<interpreter, top, phase, suite, line, pc, lines, result>>

\* Parser::parse: the match on the result of self.declaration()
DeclarationDone(p, stmt) ==
    IF stmt.r = "ok"
    THEN [p EXCEPT !.stmts = Append(@, stmt.v), !.current = stmt.current,
                   !.before = p.current, !.failed = 0]
    ELSE [p EXCEPT !.errs = Append(@, stmt.msg),
                   !.current = Synchronize(p.tokens, stmt.current),
                   !.before = p.current, !.failed = stmt.current]

\* Parser::parse: one iteration of `while !self.is_at_end()`
ParseDeclaration ==
    /\ probe.op = "parse" /\ probe.at = "loop"
    /\ ~IsAtEnd(probe.tokens, probe.current)
    /\ probe' = DeclarationDone(probe, Declaration(probe.tokens, probe.current))
    /\ UNCHANGED <<interpreter, top, phase, suite, line, pc, lines, result>>

RECURSIVE Join(_, _)
\* errs.join(sep)
Join(errs, sep) ==
    IF errs = <<>> THEN ""
    ELSE IF Len(errs) = 1 THEN errs[1]
    ELSE errs[1] \o sep \o Join(Tail(errs), sep)

\* Parser::parse: after the loop
ParseEnd ==
    /\ probe.op = "parse" /\ probe.at = "loop"
    /\ IsAtEnd(probe.tokens, probe.current)
    /\ probe' = [probe EXCEPT
                    !.at = "done",
                    !.result = IF Len(probe.errs) = 0
                               THEN [r |-> "ok", v |-> probe.stmts]
                               ELSE [r |-> "err", msg |-> Join(probe.errs, "\n")]]
    /\ UNCHANGED <<interpreter, top, phase, suite, line, pc, lines, result>>

NextParser == ParserNew \/ ParseDeclaration \/ ParseEnd

\* Parser::parse on any of the token sequences
SpecParser == InitParser /\ [][NextParser]_vars

\* Parser::new, an iteration of the loop or the return is left to do: what
\* ENABLED <<NextParser>>_vars comes to
ParserRunning == probe.op = "none" \/ probe.at = "loop"

\* Parser::parse is one sequential loop and is never suspended while a step is left
\* to do: WF_vars(NextParser), written out with ParserRunning for its ENABLED and,
\* every step of SpecParser that changes vars being one of NextParser, with TRUE for
\* the action
SpecParserRuns ==
    SpecParser /\ ([]<>(~ParserRunning) \/ []<><<TRUE>>_vars)

----------------------------------------------------------------------------
(* Lexical scoping, stated on the syntax alone: for every Variable and     *)
(* Assign expression, the number of scopes (blocks, function bodies)       *)
(* between the use and the nearest enclosing scope that declares the name. *)
(* It is what the claims about scoping are measured against; none of the   *)
(* code is modelled by it.                                                 *)

RECURSIVE LexicalDepth(_, _, _)
\* hops from scope i up to the nearest scope declaring name, None when there is none
LexicalDepth(scopes, name, i) ==
    IF i = 0 THEN None
    ELSE IF name \in scopes[i] THEN Some(Len(scopes) - i)
    ELSE LexicalDepth(scopes, name, i - 1)

\* the table with the use `id` of `name` added, when a scope declares the name
LexicalUse(lx, id, name) ==
    LET d == LexicalDepth(lx.scopes, name, Len(lx.scopes))
    IN  IF d = None THEN lx ELSE [lx EXCEPT !.table = MapInsert(@, id, d[1])]

\* the name declared in the innermost scope (at top level: a global, not tracked)
LexicalDeclare(lx, name) ==
    IF lx.scopes = <<>> THEN lx
    ELSE [lx EXCEPT !.scopes[Len(lx.scopes)] = @ \cup {name}]

LexicalPop(lx) == [lx EXCEPT !.scopes = SubSeq(@, 1, Len(@) - 1)]

RECURSIVE LexicalExpr(_, _)
RECURSIVE LexicalExprs(_, _)
RECURSIVE LexicalStmt(_, _)
RECURSIVE LexicalStmts(_, _)
RECURSIVE LexicalParams(_, _)

LexicalParams(lx, params) ==
    IF params = <<>> THEN lx
    ELSE LexicalParams(LexicalDeclare(lx, Head(params)), Tail(params))

LexicalFunction(lx, params, body) ==
    LexicalPop(LexicalStmts(LexicalParams([lx EXCEPT !.scopes = Append(@, {})], params), body))

LexicalExprs(lx, exprs) ==
    IF exprs = <<>> THEN lx ELSE LexicalExprs(LexicalExpr(lx, Head(exprs)), Tail(exprs))

LexicalExpr(lx, expr) ==
    CASE expr.kind = "Variable" -> LexicalUse(lx, expr.id, expr.name)
      [] expr.kind = "Assign" -> LexicalUse(LexicalExpr(lx, expr.value), expr.id, expr.name)
      [] expr.kind \in {"Binary", "Logical"} ->
            LexicalExpr(LexicalExpr(lx, expr.left), expr.right)
      [] expr.kind = "Call" -> LexicalExprs(LexicalExpr(lx, expr.callee), expr.arguments)
      [] expr.kind = "Grouping" -> LexicalExpr(lx, expr.expression)
      [] expr.kind = "Unary" -> LexicalExpr(lx, expr.right)
      [] expr.kind = "AnonFunction" -> LexicalFunction(lx, expr.arguments, expr.body)
      [] OTHER -> lx

LexicalStmts(lx, stmts) ==
    IF stmts = <<>> THEN lx ELSE LexicalStmts(LexicalStmt(lx, Head(stmts)), Tail(stmts))

LexicalStmt(lx, stmt) ==
    CASE stmt.kind = "Block" ->
            LexicalPop(LexicalStmts([lx EXCEPT !.scopes = Append(@, {})], stmt.statements))
      [] stmt.kind = "Var" -> LexicalDeclare(LexicalExpr(lx, stmt.initializer), stmt.name)
      [] stmt.kind = "Function" ->
            LexicalFunction(LexicalDeclare(lx, stmt.name), stmt.params, stmt.body)
      [] stmt.kind \in {"Expression", "Print"} -> LexicalExpr(lx, stmt.expression)
      [] stmt.kind = "IfStmt" ->
            LET then == LexicalStmt(LexicalExpr(lx, stmt.predicate), stmt.then)
            IN  IF stmt.els = None THEN then ELSE LexicalStmt(then, stmt.els[1])
      [] stmt.kind = "ReturnStmt" ->
            IF stmt.value = None THEN lx ELSE LexicalExpr(lx, stmt.value[1])
      [] stmt.kind = "WhileStmt" -> LexicalStmt(LexicalExpr(lx, stmt.condition), stmt.body)

\* the lexical table of a text: the hops of every use in it of a name that a scope
\* declares
LexicalTable(text) == LexicalStmts([scopes |-> <<>>, table |-> EmptyMap], text.stmts).table

RECURSIVE Hop(_, _, _)
\* the frame d parent links above frame f; 0 when the chain ends before
Hop(heap, f, d) ==
    IF f = 0 \/ d = 0 THEN f ELSE Hop(heap, heap[f].enclosing, d - 1)

RECURSIVE Root(_, _)
\* the frame without parent that the chain of frame f ends in
Root(heap, f) == IF heap[f].enclosing = 0 THEN f ELSE Root(heap, heap[f].enclosing)

\* the frame of the lexically nearest enclosing declaration for the use `id`
\* evaluated in frame env; the global frame when no scope declares the name
LexicalFrame(heap, table, env, id) ==
    IF id \in DOMAIN table THEN Hop(heap, env, table[id]) ELSE Root(heap, env)

\* the events of the history of the line being run
Events == {interpreter.trace[i] : i \in 1..Len(interpreter.trace)}

\* the last `run` was of the text called name and is over, whatever its outcome
Ended(name) == line.name = name /\ phase \in {"prompt", "aborted", "diverged"}

Printed(n) == [text |-> "number", n |-> n]

----------------------------------------------------------------------------
(* Claims *)

\* C1: every Variable read and every Assign evaluated at run time, also one nested in
\* a Binary, Unary, Logical, Grouping or Call-argument sub-expression of a statement,
\* addresses the frame of the lexically nearest enclosing declaration of its name, or
\* the global frame when no enclosing block or function scope declares it.
C1_UsesAddressLexicalFrame ==
    \A i \in 1..Len(interpreter.trace) :
        LET e == interpreter.trace[i]
        IN  e.ev \in {"get", "assign"} =>
                e.frame = LexicalFrame(interpreter.heap, LexicalTable(line), e.env, e.id)

\* C2: a `var` in an inner block changes no frame but the block's own: in the block a
\* read sees the inner value and after the block a read sees the outer value unchanged.
C2_ShadowingLeavesOuterBinding ==
    /\ \A i \in 1..Len(interpreter.trace) :
          LET e == interpreter.trace[i]
          IN  e.ev = "define" =>
                 /\ e.changed \subseteq {e.env}
                 /\ MapGet(interpreter.heap[e.env].values, e.name) # None
    /\ Ended("ShadowInBlock") =>
          /\ result = [r |-> "ok"]
          /\ interpreter.out = <<Printed(2), Printed(1)>>
    /\ Ended("ShadowGlobal") =>
          /\ result = [r |-> "ok"]
          /\ interpreter.out = <<Printed(2), Printed(1)>>
          /\ MapGet(interpreter.heap[1].values, "a") = Some(Number(1))
    /\ Ended("ShadowDeep") =>
          /\ result = [r |-> "ok"]
          /\ interpreter.out = <<Printed(1), Printed(2), Printed(2)>>

\* C2: the shadowing text has run to its end and printed the inner, then the outer value
C2_Witness ==
    /\ Ended("ShadowInBlock")
    /\ interpreter.out = <<Printed(2), Printed(1)>>
    /\ \E i \in 1..Len(interpreter.trace) :
          interpreter.trace[i].ev = "define" /\ interpreter.trace[i].env > 2

\* the numbers 1, 2, ..., k as the interpreter prints them
Counted(k) == [j \in 1..k |-> Printed(j)]

\* C3: the k-th call of one function returned by makeCounter observes k: the frame of
\* the makeCounter call outlives that call and accumulates the increments.
C3_ClosureAccumulates ==
    /\ (line.name \in {"Counter", "CounterReturn"} /\ phase = "resolved") =>
          interpreter.out = Counted(IF pc > 3 THEN pc - 3 ELSE 0)
    /\ \A name \in {"Counter", "CounterReturn", "CounterInBlock"} :
          Ended(name) => /\ result = [r |-> "ok"]
                         /\ interpreter.out = Counted(line.arg)

\* C3: a returned function has been called MaxCalls times and has observed 1..MaxCalls
C3_Witness ==
    /\ Ended("CounterReturn")
    /\ line.arg = MaxCalls
    /\ interpreter.out = Counted(MaxCalls)
    /\ Len(interpreter.out) >= 2

\* C4: every invocation runs in a frame of its own, created by the call under the frame
\* the function was declared in; two closures from two makeCounter calls count apart.
C4_InvocationsHaveOwnFrames ==
    /\ \A i \in 1..Len(interpreter.trace) :
          LET e == interpreter.trace[i]
          IN  e.ev = "call" /\ e.kind = "closure" =>
                 /\ e.frame # e.parent
                 /\ interpreter.heap[e.frame].enclosing = e.parent
                 /\ \A j \in 1..Len(interpreter.trace) :
                        (j # i /\ interpreter.trace[j].ev = "call") =>
                            interpreter.trace[j].frame # e.frame
    /\ Ended("TwoCounters") =>
          /\ result = [r |-> "ok"]
          /\ interpreter.out = <<Printed(1), Printed(2), Printed(1), Printed(3), Printed(2)>>
    /\ Ended("FreshLocals") =>
          /\ result = [r |-> "ok"]
          /\ interpreter.out = <<Printed(2), Printed(2), Printed(3)>>

\* C4: both counters have been called and each has counted from 1 on its own
C4_Witness ==
    /\ Ended("TwoCounters")
    /\ interpreter.out = <<Printed(1), Printed(2), Printed(1), Printed(3), Printed(2)>>

\* the texts with a `var` in a block or function body whose initializer reads the
\* declared name
SelfInitTexts ==
    {"SelfInit", "SelfInitShadow", "SelfInitBinary", "SelfInitUnary", "SelfInitGrouping",
     "SelfInitLogical", "SelfInitArgument", "SelfInitInFunction", "SelfInitCallee",
     "SelfInitCalleeShadow"}

\* C5: once the resolver has gone over a text with a `var` in a block or function body
\* whose initializer reads the declared name, the run has failed in resolution and
\* nothing was bound: no statement of the text has been interpreted.
C5_SelfInitializerRejected ==
    (line.name \in SelfInitTexts /\ phase # "parsed") =>
        /\ result.r = "err"
        /\ result.stage = "resolve"
        /\ interpreter.trace = <<>>

\* C6: Environment::get without a distance, on any frame of any chain, returns the
\* binding of the name in the root frame of that chain, None when the root does not
\* bind it, whatever the frames in between bind.
C6_GetWithoutDistanceReadsRoot ==
    (probe.op = "get" /\ probe.distance = None) =>
        /\ probe.r = "ok"
        /\ probe.frame = Root(interpreter.heap, probe.f)
        /\ probe.v = MapGet(interpreter.heap[Root(interpreter.heap, probe.f)].values,
                            probe.name)

\* C6: a get without distance, two frames below the root, where the frame, its parent
\* and the root bind the name to different things, has returned the root's binding
C6_Witness ==
    /\ probe.op = "get" /\ probe.distance = None /\ probe.name = "a"
    /\ interpreter.heap[probe.f].enclosing # 0
    /\ interpreter.heap[interpreter.heap[probe.f].enclosing].enclosing # 0
    /\ MapGet(interpreter.heap[probe.f].values, "a") = Some(Number(2))
    /\ MapGet(interpreter.heap[interpreter.heap[probe.f].enclosing].values, "a") = None
    /\ probe.v = Some(Number(1))

\* C7: `==` and `!=` never produce an error, whatever the two operands are, and for
\* operands of different types `==` is False and `!=` is True.
C7_EqualityIsTotal ==
    (probe.op = "binary" /\ probe.operator \in {"EqualEqual", "BangEqual"}) =>
        /\ probe.r = "ok"
        /\ ToType(probe.left) # ToType(probe.right) =>
               probe.v = IF probe.operator = "EqualEqual" THEN False ELSE True

\* the message of the arity error, as the values its format string interpolates
ArityError(name, arity, argc) ==
    [error |-> "Callable expected arguments but got", name |-> name, expected |-> arity,
     got |-> argc]

\* the run of the line failed with the arity error and printed nothing, and no function
\* body was entered
FailedOnArity(name, arity, argc) ==
    /\ result = [r |-> "err", stage |-> "interpret", msg |-> ArityError(name, arity, argc)]
    /\ interpreter.out = <<>>
    /\ \A e \in Events : e.ev # "call"

\* C8: a call whose callee is a Callable of another arity than the number of arguments
\* evaluates at once to the error naming the callable, its arity and the number of
\* arguments; nothing runs in between, neither an argument nor the body.
C8_ArityMismatchIsError ==
    /\ \A j \in 1..Len(interpreter.trace) :
          LET e == interpreter.trace[j]
          IN  (e.ev = "apply" /\ e.arity # e.argc) =>
                 /\ j < Len(interpreter.trace)
                 /\ interpreter.trace[j + 1] =
                        [ev |-> "ret", id |-> e.id, kind |-> "Call", r |-> "err", v |-> Nil,
                         msg |-> ArityError(e.name, e.arity, e.argc)]
    /\ Ended("TooFew") => FailedOnArity("two", 2, 1)
    /\ Ended("TooMany") => FailedOnArity("two", 2, 3)
    /\ Ended("ZeroGivenOne") => FailedOnArity("zero", 0, 1)
    /\ Ended("NativeArity") => FailedOnArity("clock", 0, 1)
    /\ Ended("TooFewInBlock") => FailedOnArity("two", 2, 1)
    /\ Ended("TooFewWithEffect") =>
          /\ FailedOnArity("two", 2, 1)
          /\ MapGet(interpreter.heap[1].values, "g") = Some(Number(0))
    /\ Ended("TooFewInFunction") =>
          /\ result.r = "panic"
          /\ result.msg.cause = ArityError("two", 2, 1)
          /\ interpreter.out = <<>>
          /\ \A e \in Events : e.ev = "call" => e.name = "outer"

\* C8: the 2-arity function was called with one argument and the run failed with the
\* error naming two, 2 and 1
C8_Witness ==
    /\ Ended("TooFew")
    /\ \E e \in Events : e.ev = "apply" /\ e.name = "two" /\ e.arity = 2 /\ e.argc = 1
    /\ result = [r |-> "err", stage |-> "interpret", msg |-> ArityError("two", 2, 1)]

\* falsy values: 0, the empty string, false and nil
Falsy(v) == v \in {Number(0), StringValue(<<>>), False, Nil}

\* the left operand v decides the Logical with this operator
ShortCircuits(operator, v) ==
    \/ operator = "And" /\ Falsy(v)
    \/ operator = "Or" /\ ~Falsy(v)

\* C9: when the left operand of `and` is falsy, or the left operand of `or` is truthy,
\* the Logical returns right after its left operand: the right operand is not evaluated,
\* no function is called and nothing is assigned.
C9_LogicalShortCircuits ==
    /\ \A j \in 1..Len(interpreter.trace) :
          LET e == interpreter.trace[j]
          IN  (e.ev = "logical" /\ ShortCircuits(e.operator, e.lhs)) =>
                 /\ j < Len(interpreter.trace)
                 /\ interpreter.trace[j + 1].ev = "ret"
                 /\ interpreter.trace[j + 1].id = e.id
                 /\ interpreter.trace[j + 1].r = "ok"
    /\ (Ended("Logic") /\ ShortCircuits(line.arg.operator, line.arg.left)) =>
          /\ result = [r |-> "ok"]
          /\ Len(interpreter.out) = 2
          /\ interpreter.out[2] = Printed(0)
          /\ \A e \in Events : e.ev \notin {"call", "assign"}

\* C9: `false and sideEffect()` has run to its end, sideEffect was not called and g is 0
C9_Witness ==
    /\ Ended("Logic")
    /\ line.arg = [left |-> False, operator |-> "And", right |-> "call"]
    /\ result = [r |-> "ok"]
    /\ interpreter.out[2] = Printed(0)
    /\ \E e \in Events : e.ev = "logical" /\ e.lhs = False

\* the value of the right operand of a text about `and` and `or`
LogicRightValue(right) == IF right = "call" THEN Number(5) ELSE Number(1)

\* C10: `a and b` with a falsy and `a or b` with a truthy have a's own value, unchanged;
\* otherwise the value is that of b.
C10_LogicalYieldsOperand ==
    /\ \A j \in 1..Len(interpreter.trace) :
          LET e == interpreter.trace[j]
          IN  (e.ev = "logical" /\ ShortCircuits(e.operator, e.lhs)
               /\ j < Len(interpreter.trace)) =>
                 interpreter.trace[j + 1].v = e.lhs
    /\ Ended("Logic") =>
          /\ result = [r |-> "ok"]
          /\ interpreter.out[1] =
                 ValueToString(IF ShortCircuits(line.arg.operator, line.arg.left)
                               THEN line.arg.left
                               ELSE LogicRightValue(line.arg.right))

----------------------------------------------------------------------------
(* Return: the signal slot of an invocation *)

\* C11: once a `return` has been executed during an invocation of a function, no
\* further statement of that invocation is executed, wherever the return sits (in the
\* body itself, in a nested block, in a branch of an if, in the body of a while): no
\* statement is ever started by an interpreter whose signal slot already holds "return"
C11_ReturnEndsInvocation ==
    \A e \in Events : e.ev = "stmt" => ~e.returned

\* the "call" events of the run of the current line, by position in the history
CallsAt == {i \in 1..Len(interpreter.trace) : interpreter.trace[i].ev = "call"}

\* C12: the return signal does not leak across calls.  Every call runs with a signal
\* slot of its own, empty when the call starts, different from the slot of the
\* top-level interpreter and from the slot of every other call; a `return` writes the
\* slot of the invocation that executes it and no other, so the slot of the top-level
\* interpreter stays empty; and the caller goes on with the statements after the call
\* (the function f prints and returns after inner() returned, the line prints 9 after
\* f() returned)
C12_ReturnSignalStaysInCall ==
    /\ \A i \in CallsAt :
          /\ interpreter.trace[i].slot # top.specials
          /\ interpreter.trace[i].signal = EmptyMap
          /\ \A j \in CallsAt : j # i => interpreter.trace[j].slot # interpreter.trace[i].slot
    /\ \A i \in 1..Len(interpreter.trace) :
          interpreter.trace[i].ev = "return" =>
             /\ interpreter.trace[i].slot # top.specials
             /\ \E j \in CallsAt :
                   /\ j < i
                   /\ interpreter.trace[j].slot = interpreter.trace[i].slot
    /\ interpreter.specials[top.specials] = EmptyMap
    /\ Ended("NestedReturn") => interpreter.out = << Printed(2), Printed(3), Printed(9) >>
    /\ Ended("VeryNestedReturn") =>
          interpreter.out = << Printed(1), Printed(2), Printed(3), Printed(9) >>
    /\ Ended("NestedBareReturn") =>
          interpreter.out = << Printed(2), ValueToString(Nil), Printed(9) >>
    /\ Ended(line.name) /\ line.name # "" =>
          /\ result.r = "ok"
          /\ interpreter.out[Len(interpreter.out)] = Printed(9)

\* C12: three invocations nested in each other have returned, each to its caller
C12_Witness ==
    /\ Ended("VeryNestedReturn")
    /\ Cardinality(CallsAt) = 3
    /\ Cardinality({i \in 1..Len(interpreter.trace) : interpreter.trace[i].ev = "return"}) = 3
    /\ interpreter.out = << Printed(1), Printed(2), Printed(3), Printed(9) >>

\* the positions of the history where the slot is signalled by a `return`
ReturnsAt(slot) ==
    {i \in 1..Len(interpreter.trace) :
        interpreter.trace[i].ev = "return" /\ interpreter.trace[i].slot = slot}

\* the value an invocation with this slot has to hand back when it ends at position i:
\* what the `return` executed last before i signalled, Nil when none was executed
Signal(slot, i) ==
    IF {j \in ReturnsAt(slot) : j < i} = {} THEN Nil
    ELSE interpreter.trace[CHOOSE j \in ReturnsAt(slot) :
                               j < i /\ \A k \in ReturnsAt(slot) : k < i => k <= j].v

\* C13: a call evaluates to the value signalled by `return`; to Nil when the body
\* completes without executing a return, and when the executed `return` has no value
C13_CallYieldsReturnValue ==
    /\ \A i \in 1..Len(interpreter.trace) :
          interpreter.trace[i].ev = "exit" /\ interpreter.trace[i].r = "ok" =>
             interpreter.trace[i].v = Signal(interpreter.trace[i].slot, i)
    /\ Ended("ReturnDirect") => interpreter.out = << ValueToString(line.arg), Printed(9) >>
    /\ Ended("ReturnInIf") \/ Ended("ReturnInElse") =>
          interpreter.out = << Printed(1), Printed(9) >>
    /\ Ended("NoReturn") => interpreter.out = << Printed(2), ValueToString(Nil), Printed(9) >>
    /\ Ended("EmptyBody") \/ Ended("BareReturn") \/ Ended("BareReturnInIf") =>
          interpreter.out = << ValueToString(Nil), Printed(9) >>

\* C13: a call has handed back the string its `return` signalled
C13_Witness ==
    /\ Ended("ReturnDirect")
    /\ line.arg = StringValue(<<49>>)
    /\ \E i \in 1..Len(interpreter.trace) :
          /\ interpreter.trace[i].ev = "exit"
          /\ interpreter.trace[i].v = line.arg
          /\ ReturnsAt(interpreter.trace[i].slot) # {}

----------------------------------------------------------------------------
(* Recursion *)

RECURSIVE Fibonacci(_)
\* the n-th Fibonacci number
Fibonacci(n) == IF n < 2 THEN n ELSE Fibonacci(n - 1) + Fibonacci(n - 2)

\* C14: the recursive function fib terminates and returns the n-th Fibonacci number
\* for every n from 0 up to MaxFib: the line that prints fib(n) ends without a
\* failure and has printed that number
C14_FibReturnsFibonacci ==
    Ended("Fib") =>
       /\ result.r = "ok"
       /\ interpreter.out = << Printed(Fibonacci(line.arg)) >>

----------------------------------------------------------------------------
(* Runtime errors *)

\* C15: a runtime error raised while a function body is executed, at any call depth
\* (undeclared variable, arity mismatch, invalid operand types, call of a
\* non-callable), makes the run return an error result; it never aborts the process
C15_BodyErrorIsErrorValue ==
    /\ Ended("Failing")
    /\ line.arg.kind \in {"undeclared", "arity", "operands", "notcallable"}
    /\ line.arg.place \in {"function", "functions", "blockInFunction"}
    => /\ result.r = "err"
       /\ result.stage = "interpret"

\* C16: a Callable evaluated in a boolean context (condition of if or while, left
\* operand of and/or, operand of !) ends the run with an error result; the run neither
\* goes on with a boolean nor aborts the process
C16_CallableAsBooleanIsError ==
    /\ Ended("Failing")
    /\ \E k \in 1..Len(BooleanKinds) : line.arg.kind = BooleanKinds[k]
    => /\ result.r = "err"
       /\ result.stage = "interpret"

\* C17: the evaluation of an assignment to a name that no enclosing scope declares and
\* that the global frame does not bind yields the "undeclared variable" error, at any
\* nesting depth and any call depth
C17_UndeclaredAssignIsError ==
    \A i \in 1..Len(interpreter.trace) :
        /\ interpreter.trace[i].ev = "assign"
        /\ interpreter.trace[i].id \notin DOMAIN LexicalTable(line)
        /\ ~interpreter.trace[i].global
        => /\ i < Len(interpreter.trace)
           /\ interpreter.trace[i + 1].ev = "ret"
           /\ interpreter.trace[i + 1].id = interpreter.trace[i].id
           /\ interpreter.trace[i + 1].r = "err"
           /\ interpreter.trace[i + 1].msg.error = "Variable has not been declared"

----------------------------------------------------------------------------
(* Calls are scoped lexically *)

\* the current frame of the caller of the call that starts at position i of the
\* history: the frame in which the last callee before i was evaluated
CallerFrame(i) ==
    interpreter.trace[CHOOSE j \in 1..i :
                         /\ interpreter.trace[j].ev = "apply"
                         /\ \A k \in j + 1..i : interpreter.trace[k].ev # "apply"].env

\* the frames of the calls of the function `name` in the history
CallFrames(name) ==
    {interpreter.trace[i].frame : i \in {j \in CallsAt : interpreter.trace[j].name = name}}

\* C18: scoping of calls is lexical, not dynamic.  The frame made for a call has as
\* parent the frame the function was defined in (the frame that binds it and that it
\* captured), not the current frame of the caller when that is another frame; and a
\* free variable of the body addresses the frame of its lexical declaration, never
\* the caller's local of the same name: h reads 1 and writes the outer a, while the
\* caller's own a keeps the value 2
C18_CallsAreLexicallyScoped ==
    /\ \A i \in CallsAt :
          LET e == interpreter.trace[i]
          IN  /\ interpreter.heap[e.frame].enclosing = e.parent
              /\ e.name \in DOMAIN interpreter.heap[e.parent].values
              /\ interpreter.heap[e.parent].values[e.name].t = "Callable"
              /\ interpreter.heap[e.parent].values[e.name].fun.env = e.parent
              /\ CallerFrame(i) # e.parent =>
                    interpreter.heap[e.frame].enclosing # CallerFrame(i)
    /\ \A e \in Events :
          e.ev \in {"get", "assign"} /\ e.name = "a" /\ e.env \in CallFrames("h") =>
             /\ e.frame = LexicalFrame(interpreter.heap, LexicalTable(line), e.env, e.id)
             /\ \A i \in CallsAt :
                   /\ interpreter.trace[i].frame = e.env
                   /\ CallerFrame(i) # interpreter.trace[i].parent
                   => e.frame # CallerFrame(i)
    /\ Ended("FreeVariable") /\ line.arg.use = "read" =>
          interpreter.out = << Printed(1), Printed(2), Printed(1) >>
    /\ Ended("FreeVariable") /\ line.arg.use = "write" =>
          interpreter.out = << Printed(2), Printed(5) >>
    /\ Ended("UnboundVariable") /\ interpreter.out # <<>> =>
          interpreter.out[1] # Printed(2)

\* C18: a function defined in a block has been called from the body of another
\* function that has a local named like the free variable the callee writes
C18_Witness ==
    /\ Ended("FreeVariable")
    /\ line.arg = [scope |-> "block", caller |-> "function", use |-> "write"]
    /\ interpreter.out = << Printed(2), Printed(5) >>
    /\ \E i \in CallsAt :
          /\ interpreter.trace[i].name = "h"
          /\ CallerFrame(i) # interpreter.trace[i].parent
          /\ "a" \in DOMAIN interpreter.heap[CallerFrame(i)].values

----------------------------------------------------------------------------
(* Anonymous functions *)

\* what the text of a case prints when its function addresses its parameters, its own
\* locals and the captured variables in the frames of their declarations
FormOutput(case) ==
    CASE case \in {"param", "captured", "global"} ->
            << Printed(1), ValueToString(Nil), Printed(1) >>
      [] case = "local" -> << Printed(2), ValueToString(Nil), Printed(1) >>
      [] case = "assignParam" -> << Printed(3), ValueToString(Nil), Printed(1) >>
      [] case = "assignCaptured" -> << ValueToString(Nil), Printed(4) >>
      [] case = "return" -> << Printed(7), Printed(1) >>

\* C19: an anonymous function behaves exactly like a named function with the same
\* parameters and body: in either form the uses of parameters, own locals and captured
\* variables address the same frames, so the text of each case ends in the same way
\* and prints the same in both forms
C19_AnonBehavesLikeNamed ==
    Ended("FunctionForm") =>
       /\ result.r = "ok"
       /\ interpreter.out = FormOutput(line.arg.case)

----------------------------------------------------------------------------
(* Arithmetic and comparison operators *)

\* C20: for the operators + - * / > >= < <= the result is a value only for a Number
\* with a Number (all eight operators) and for a String with a String (+ and the four
\* comparisons); every other pairing of operands, - * / on two strings and every
\* pairing of different types included, yields an error and never a value.  Where
\* there is a value, + - * / on numbers give a Number, + on strings gives a String and
\* the comparisons give a boolean
C20_ArithmeticOperandPairs ==
    (probe.op = "binary" /\ probe.operator \in NumberOps) =>
        /\ probe.r \in {"ok", "err"}
        /\ probe.r = "ok" <=>
              \/ probe.left.t = "Number" /\ probe.right.t = "Number"
              \/ /\ probe.left.t = "String" /\ probe.right.t = "String"
                 /\ probe.operator \in {"Plus", "Greater", "GreaterEqual", "Less", "LessEqual"}
        /\ probe.r = "ok" /\ probe.operator \in {"Plus", "Minus", "Star", "Slash"}
              => probe.v.t = probe.left.t
        /\ probe.r = "ok" /\ probe.operator \in {"Greater", "GreaterEqual", "Less", "LessEqual"}
              => probe.v \in {True, False}

\* C20: two strings have been subtracted and the result is an error
C20_Witness ==
    /\ probe.op = "binary"
    /\ probe.operator = "Minus"
    /\ probe.left = StringValue(<<49>>)
    /\ probe.right = StringValue(<<>>)
    /\ probe.r = "err"

----------------------------------------------------------------------------
(* Blocks and the current frame *)

\* C21: after a Block statement has been executed, with success or with the error of
\* an inner statement, the current frame of the interpreter is the frame it was before
\* the block; so whenever the top-level interpret has returned, and between two
\* top-level statements, the current frame is the global frame
C21_BlockRestoresFrame ==
    /\ \A e \in Events : e.ev = "block" /\ e.r \in {"ok", "err"} => e.after = e.before
    /\ phase \in {"prompt", "parsed", "resolved"} =>
          /\ top.environment = 1
          /\ interpreter.heap[top.environment].enclosing = 0

\* C21: a statement inside two nested blocks has failed and the run has returned the
\* error, both blocks having put their frames back
C21_Witness ==
    /\ Ended("Failing")
    /\ line.arg.place = "blocks"
    /\ result.r = "err"
    /\ Cardinality({i \in 1..Len(interpreter.trace) :
                       /\ interpreter.trace[i].ev = "block"
                       /\ interpreter.trace[i].r = "err"
                       /\ interpreter.trace[i].after = interpreter.trace[i].before}) = 2
    /\ top.environment = 1

----------------------------------------------------------------------------
(* Loops and the return signal *)

\* C22: a while loop stops at once when its body raises the return signal.  A call of
\* a function whose body is a loop with an always-truthy condition and a `return v` in
\* the loop body terminates and returns v (the line prints v and 9); and between a
\* `return` and the end of its invocation nothing is evaluated, in particular not the
\* condition of the loop
C22_ReturnStopsLoop ==
    /\ Ended("LoopForever") =>
          /\ result.r = "ok"
          /\ interpreter.out = << ValueToString(line.arg), Printed(9) >>
    /\ line.name = "LoopForever" => phase # "diverged"
    /\ \A i \in 1..Len(interpreter.trace) :
          interpreter.trace[i].ev = "return" /\ i < Len(interpreter.trace) =>
             /\ interpreter.trace[i + 1].ev = "block" => i + 1 < Len(interpreter.trace)
             /\ interpreter.trace[IF interpreter.trace[i + 1].ev = "block"
                                  THEN i + 2 ELSE i + 1].ev # "eval"

----------------------------------------------------------------------------
(* The resolution table *)

RECURSIVE CallsOfExprs(_), CallsOfExpr(_), CallsOfStmts(_), CallsOfStmt(_)
\* the Call expressions with a plain variable as callee that occur in a text, each as
\* the pair of its own id and the id of its callee
CallsOfExprs(exprs) ==
    IF exprs = <<>> THEN {} ELSE CallsOfExpr(Head(exprs)) \cup CallsOfExprs(Tail(exprs))

CallsOfExpr(expr) ==
    CASE expr.kind = "Assign" -> CallsOfExpr(expr.value)
      [] expr.kind \in {"Binary", "Logical"} ->
            CallsOfExpr(expr.left) \cup CallsOfExpr(expr.right)
      [] expr.kind = "Call" ->
            (IF expr.callee.kind = "Variable"
             THEN {[id |-> expr.id, callee |-> expr.callee.id]} ELSE {})
            \cup CallsOfExpr(expr.callee) \cup CallsOfExprs(expr.arguments)
      [] expr.kind = "Grouping" -> CallsOfExpr(expr.expression)
      [] expr.kind = "Unary" -> CallsOfExpr(expr.right)
      [] expr.kind = "AnonFunction" -> CallsOfStmts(expr.body)
      [] OTHER -> {}

CallsOfStmts(stmts) ==
    IF stmts = <<>> THEN {} ELSE CallsOfStmt(Head(stmts)) \cup CallsOfStmts(Tail(stmts))

CallsOfStmt(stmt) ==
    CASE stmt.kind = "Block" -> CallsOfStmts(stmt.statements)
      [] stmt.kind = "Var" -> CallsOfExpr(stmt.initializer)
      [] stmt.kind = "Function" -> CallsOfStmts(stmt.body)
      [] stmt.kind \in {"Expression", "Print"} -> CallsOfExpr(stmt.expression)
      [] stmt.kind = "IfStmt" ->
            CallsOfExpr(stmt.predicate) \cup CallsOfStmt(stmt.then)
            \cup (IF stmt.els = None THEN {} ELSE CallsOfStmt(stmt.els[1]))
      [] stmt.kind = "ReturnStmt" ->
            IF stmt.value = None THEN {} ELSE CallsOfExpr(stmt.value[1])
      [] stmt.kind = "WhileStmt" -> CallsOfExpr(stmt.condition) \cup CallsOfStmt(stmt.body)

\* the lexical table with the hops of each callee moved to the id of its Call
Rekeyed(table, calls) ==
    [id \in (DOMAIN table \ {c.callee : c \in calls})
            \cup {c.id : c \in {d \in calls : d.callee \in DOMAIN table}} |->
        IF \E c \in calls : c.id = id
        THEN table[(CHOOSE c \in calls : c.id = id).callee]
        ELSE table[id]]

\* the table a resolver has to leave for a text when it records every distance under
\* the id of the use itself: the Variable for a read, the Assign for an assignment, the
\* Call for the lookup of its callee; no entry for a name that no open scope contains
UseTable(text) == Rekeyed(LexicalTable(text), CallsOfStmts(text.stmts))

\* C23: the resolver records each distance it finds under the id of the use expression
\* itself, in every statement context, a `var` initializer and a while condition
\* included, and records nothing for a name that no open scope contains: after the
\* resolution of the first line the table of the interpreter is the table of the uses
C23_DistancesUnderUseIds ==
    phase = "resolved" /\ lines = 1 => interpreter.locals = UseTable(line)


\* C24: during one resolution pass no expression id is registered twice in the table
\* of distances: the calls of Interpreter::resolve made for one text carry pairwise
\* different ids, so no entry is overwritten.
C24_TableIsWriteOnce ==
    \A i, j \in 1..Len(interpreter.writes) :
        interpreter.writes[i].id = interpreter.writes[j].id => i = j

----------------------------------------------------------------------------
(* Environment::get and Environment::assign with and without a distance *)

\* the frame a call on frame f with the distance addresses: the root of the chain
\* without a distance, the frame `distance` hops up with one
Addressed(heap, f, distance) ==
    IF distance = None THEN Root(heap, f) ELSE Hop(heap, f, distance[1])

\* C25: Environment::assign returns true exactly when the name was bound in the
\* addressed frame before the call, and false otherwise.
C25_AssignReportsBound ==
    (probe.op = "assign" /\ probe.r = "ok") =>
        LET g == Addressed(probe.before, probe.f, probe.distance)
        IN  probe.b = (probe.name \in DOMAIN probe.before[g].values)

\* C26: Environment::get with a distance d reads the frame exactly d hops above the
\* frame it is called on and no other: it returns that frame's binding of the name,
\* None when that frame does not bind it, whatever nearer and farther frames bind.
C26_GetWithDistanceReadsOneFrame ==
    (probe.op = "get" /\ probe.distance # None) =>
        LET g == Addressed(interpreter.heap, probe.f, probe.distance)
        IN  IF g = 0 THEN probe.r = "panic"
            ELSE /\ probe.r = "ok"
                 /\ probe.frame = g
                 /\ probe.v = MapGet(interpreter.heap[g].values, probe.name)

\* C26: a get of a with distance 1, from a frame that binds a and whose grandparent
\* binds a while its parent does not, has returned None
C26_Witness ==
    /\ probe.op = "get" /\ probe.distance = Some(1) /\ probe.name = "a"
    /\ interpreter.heap[probe.f].enclosing # 0
    /\ interpreter.heap[interpreter.heap[probe.f].enclosing].enclosing # 0
    /\ "a" \in DOMAIN interpreter.heap[probe.f].values
    /\ "a" \notin DOMAIN interpreter.heap[interpreter.heap[probe.f].enclosing].values
    /\ "a" \in DOMAIN interpreter.heap[Root(interpreter.heap, probe.f)].values
    /\ probe.r = "ok" /\ probe.v = None

\* C27: Environment::assign without a distance writes the root frame of the chain and
\* nothing else: the frame it is called on and the frames in between are as before,
\* also when they bind the name, and the root binds the name to the value.
C27_AssignWithoutDistanceWritesRoot ==
    (probe.op = "assign" /\ probe.distance = None) =>
        LET root == Root(probe.before, probe.f)
        IN  /\ probe.r = "ok"
            /\ probe.frame = root
            /\ Len(interpreter.heap) = Len(probe.before)
            /\ \A g \in 1..Len(interpreter.heap) :
                   g # root => interpreter.heap[g] = probe.before[g]
            /\ interpreter.heap[root] =
                   [probe.before[root] EXCEPT
                       !.values = MapInsert(@, probe.name, probe.value)]

\* C27: an assign of 2 without a distance, called two frames below the root on a frame
\* that binds the name to 1 under a parent that binds it to 1, has left both at 1
\* and made the root bind 2, which did not bind the name before
C27_Witness ==
    /\ probe.op = "assign" /\ probe.distance = None /\ probe.value = Number(2)
    /\ interpreter.heap[probe.f].enclosing # 0
    /\ interpreter.heap[interpreter.heap[probe.f].enclosing].enclosing # 0
    /\ MapGet(interpreter.heap[probe.f].values, "a") = Some(Number(1))
    /\ MapGet(interpreter.heap[interpreter.heap[probe.f].enclosing].values, "a")
           = Some(Number(1))
    /\ MapGet(probe.before[Root(probe.before, probe.f)].values, "a") = None
    /\ MapGet(interpreter.heap[Root(interpreter.heap, probe.f)].values, "a")
           = Some(Number(2))

----------------------------------------------------------------------------
(* Resolution and execution *)

\* C28: the whole text is resolved before any of its statements is executed: when the
\* first statement is about to run, the last use of a local is already in the table.
\* When the resolver rejects a statement, resolution stops there (no later use is
\* registered), the run ends with the resolution error, and no statement of the text
\* has been executed: no output, no evaluation, no frame and no binding made.
C28_ResolutionBeforeExecution ==
    line.name = "Unresolvable" =>
        /\ phase = "parsed" => interpreter.out = <<>> /\ interpreter.trace = <<>>
        /\ (phase # "parsed" /\ line.arg.ids.rejected # 0) =>
              /\ result = [r |-> "err", stage |-> "resolve",
                           msg |-> [error |-> "Can't read local variable in its own initializer"]]
              /\ phase = "prompt"
              /\ pc = 1
              /\ interpreter.out = <<>>
              /\ interpreter.trace = <<>>
              /\ lines = 1 => interpreter.heap = NewMachine.heap
              /\ \A i \in 1..Len(interpreter.writes) :
                     interpreter.writes[i].use < line.arg.ids.rejected
        /\ (phase # "parsed" /\ line.arg.ids.rejected = 0) =>
              \E i \in 1..Len(interpreter.writes) :
                  interpreter.writes[i].use = line.arg.ids.last

\* C28: the text whose rejected statement stands in a block, after a print at top
\* level and a use of a local, has ended with the resolution error: the use before the
\* rejected statement is registered, nothing is printed
C28_Witness ==
    /\ line.name = "Unresolvable" /\ line.arg.place = "nested"
    /\ phase = "prompt"
    /\ result.r = "err" /\ result.stage = "resolve"
    /\ Len(interpreter.writes) = 1
    /\ interpreter.out = <<>>

\* what a text of the abort suite has printed when its statement has failed
AbortOutput(place) ==
    IF place = "loop" THEN <<Printed(1), Printed(1), Printed(3), Printed(2)>>
    ELSE <<Printed(1), Printed(2)>>

\* what a text of the abort suite without a failing statement prints
EndingOutput(place) ==
    IF place = "blocks"
    THEN <<Printed(1), Printed(2), Printed(5), Printed(3), Printed(4), Printed(9)>>
    ELSE <<Printed(1), Printed(2), Printed(5), Printed(3), Printed(9)>>

\* sequence s is the beginning of sequence t
IsPrefix(s, t) == Len(s) <= Len(t) /\ s = SubSeq(t, 1, Len(s))

\* C29: when a statement at top level, in nested blocks, in a branch of an if or in
\* the body of a while fails with a runtime error, nothing runs after it: the history
\* of the run holds, after the first failed evaluation, only the failure going up, the
\* run ends with that error, and its output is what was printed before the failing
\* statement, in order, while the same text without the failure prints to the end.
C29_ErrorStopsRun ==
    line.name = "Aborting" =>
        /\ \A i, j \in 1..Len(interpreter.trace) :
               (i < j /\ interpreter.trace[i].ev = "ret" /\ interpreter.trace[i].r = "err") =>
                   /\ interpreter.trace[j].ev \in {"ret", "block"}
                   /\ interpreter.trace[j].r = "err"
        /\ line.arg.kind # "none" =>
               /\ IsPrefix(interpreter.out, AbortOutput(line.arg.place))
               /\ Ended("Aborting") =>
                      /\ phase = "prompt"
                      /\ result.r = "err" /\ result.stage = "interpret"
                      /\ interpreter.out = AbortOutput(line.arg.place)
        /\ line.arg.kind = "none" =>
               /\ IsPrefix(interpreter.out, EndingOutput(line.arg.place))
               /\ Ended("Aborting") =>
                      result = [r |-> "ok"] /\ interpreter.out = EndingOutput(line.arg.place)

\* C29: the text whose while body fails in its second iteration, in the branch of an
\* if, has ended with the error after printing 1, 1, 3, 2: neither the 3 of the second
\* iteration nor the 9 after the loop was printed
C29_Witness ==
    /\ Ended("Aborting") /\ line.arg.place = "loop" /\ line.arg.kind = "undeclared"
    /\ result.r = "err"
    /\ interpreter.out = <<Printed(1), Printed(1), Printed(3), Printed(2)>>

----------------------------------------------------------------------------
(* The chain of frames *)

\* C30: the frames form one chain rooted in the global frame: the global frame has no
\* parent, every other frame (of a block, of a call, captured by a function) has one,
\* and following the parent links from any frame reaches the global frame in fewer
\* hops than there are frames.
C30_FramesFormOneChain ==
    /\ interpreter.heap[1].enclosing = 0
    /\ top.environment \in 1..Len(interpreter.heap)
    /\ \A f \in 2..Len(interpreter.heap) :
           interpreter.heap[f].enclosing \in 1..Len(interpreter.heap)
    /\ \A f \in 1..Len(interpreter.heap) :
           \E d \in 0..(Len(interpreter.heap) - 1) : Hop(interpreter.heap, f, d) = 1

\* C30: an anonymous function made in a block, whose body uses a variable of the
\* block, has been called: its frame is two hops below the global frame, through the
\* frame of the block it captured
C30_Witness ==
    /\ line.name = "FunctionForm" /\ line.arg.case = "captured"
    /\ \E i \in 1..Len(interpreter.trace) :
          /\ interpreter.trace[i].ev = "call"
          /\ interpreter.trace[i].kind = "anon"
          /\ interpreter.trace[i].parent # 1
          /\ Hop(interpreter.heap, interpreter.trace[i].frame, 1) = interpreter.trace[i].parent
          /\ Hop(interpreter.heap, interpreter.trace[i].frame, 2) = 1

----------------------------------------------------------------------------
(* The parser *)

\* the statements and expressions the clauses of a `for` text stand for
ClauseInitializer(clauses) ==
    CASE clauses.initializer = "none" -> <<>>
      [] clauses.initializer = "var" -> << SVar(TokenI, PLiteral(Number(0))) >>
      [] clauses.initializer = "expr" ->
            << SExpression(PAssign(TokenI, PLiteral(Number(0)))) >>

ClauseCondition(clauses) ==
    IF clauses.condition = "none" THEN PLiteral(True)
    ELSE PInfix("Binary", PVariable(TokenI), Token("Less", "<"), PLiteral(Number(2)))

ClauseIncrement(clauses) ==
    IF clauses.increment = "none" THEN <<>>
    ELSE << SExpression(PAssign(TokenI, PInfix("Binary", PVariable(TokenI),
                                                Token("Plus", "+"), PLiteral(Number(1))))) >>

ClauseBody(clauses) ==
    IF clauses.body = "print" THEN SPrint(PVariable(TokenI))
    ELSE SBlock(<< SPrint(PVariable(TokenI)) >>)

\* the parser is done with a `for` text
ForParsed == probe.op = "parse" /\ probe.text.name = "For" /\ probe.at = "done"

\* C31 as stated: whatever clauses are present, a `for` statement is parsed into a
\* Block holding the optional initializer followed by a While, whose condition
\* defaults to true and whose body is a Block holding the loop body followed by the
\* optional increment.
C31_ForIsBlockOfWhileOfBlock ==
    ForParsed =>
        probe.result =
            [r |-> "ok",
             v |-> << SBlock(ClauseInitializer(probe.text.arg)
                             \o << SWhile(ClauseCondition(probe.text.arg),
                                          SBlock(<< ClauseBody(probe.text.arg) >>
                                                 \o ClauseIncrement(probe.text.arg))) >>) >>]

\* the body of the While of a `for` text: the loop body alone without an increment,
\* a Block of the loop body and the increment with one
ForWhileBody(clauses) ==
    IF clauses.increment = "none" THEN ClauseBody(clauses)
    ELSE SBlock(<< ClauseBody(clauses) >> \o ClauseIncrement(clauses))

\* C31 amended: a `for` statement is parsed into a While, whose condition defaults to
\* true; its body is the loop body, put in a Block with the increment after it only
\* when there is an increment; the While is put in a Block after the initializer only
\* when there is an initializer.
C31_ForWrapsPresentClauses ==
    ForParsed =>
        probe.result =
            [r |-> "ok",
             v |-> << IF probe.text.arg.initializer = "none"
                      THEN SWhile(ClauseCondition(probe.text.arg),
                                  ForWhileBody(probe.text.arg))
                      ELSE SBlock(ClauseInitializer(probe.text.arg)
                                  \o << SWhile(ClauseCondition(probe.text.arg),
                                               ForWhileBody(probe.text.arg)) >>) >>]

\* C31: `for (;;) print i;` has been parsed into the While of true and the print,
\* with no Block around either
C31_Witness ==
    /\ ForParsed
    /\ probe.text.arg = [initializer |-> "none", condition |-> "none",
                         increment |-> "none", body |-> "print"]
    /\ probe.result = [r |-> "ok",
                       v |-> << SWhile(PLiteral(True), SPrint(PVariable(TokenI))) >>]

\* the keywords a statement starts with (parser.rs 442-443)
StatementStart == {"Class", "Fun", "Var", "For", "If", "While", "Print", "Return"}

\* position c of the tokens is a statement boundary: the input ends there, or a
\* semicolon was just passed, or a statement-starting keyword comes next
StatementBoundary(tokens, c) ==
    \/ tokens[c].token_type = "Eof"
    \/ tokens[c - 1].token_type = "Semicolon"
    \/ tokens[c].token_type \in StatementStart

\* the last iteration of the loop of parse met a parse error at token `failed`
ParseFailed == probe.op = "parse" /\ probe.failed # 0

\* after a parse error the parser stands on the first statement boundary behind the
\* offending token
StopsAtNextBoundary ==
    ParseFailed =>
        /\ StatementBoundary(probe.tokens, probe.current)
        /\ \A c \in (probe.failed + 1)..(probe.current - 1) :
                ~StatementBoundary(probe.tokens, c)

\* parse returns every error it met, joined, or the statements when it met none,
\* with the whole input read
ReturnsEveryError ==
    (probe.op = "parse" /\ probe.at = "done") =>
        /\ probe.tokens[probe.current].token_type = "Eof"
        /\ probe.result = IF probe.errs = <<>> THEN [r |-> "ok", v |-> probe.stmts]
                          ELSE [r |-> "err", msg |-> Join(probe.errs, "\n")]
        /\ probe.failed # 0 => probe.result.r = "err"

\* C32 as stated: parse terminates on every token sequence that ends with Eof; after
\* each parse error synchronization has consumed at least one token and stopped at
\* the next statement boundary, and the result carries every error, or the statements
C32_SynchronizeAlwaysConsumes ==
    /\ [](ParseFailed => probe.current > probe.failed)
    /\ []StopsAtNextBoundary
    /\ []ReturnsEveryError
    /\ <>(probe.op = "parse" /\ probe.at = "done")

\* C32: parse terminates on every token sequence that ends with Eof; after each parse
\* error synchronization has consumed at least one token, unless the error was met on
\* Eof itself, where it consumes none, and stopped at the next statement boundary;
\* every iteration of the loop consumes at least one token, and the result carries
\* every error, or the statements when there was none
C32_ParseTerminates ==
    /\ [](ParseFailed =>
            IF probe.tokens[probe.failed].token_type = "Eof"
            THEN probe.current = probe.failed
            ELSE probe.current > probe.failed)
    /\ []StopsAtNextBoundary
    /\ []ReturnsEveryError
    /\ [](probe.op = "parse" => probe.current > probe.before)
    /\ <>(probe.op = "parse" /\ probe.at = "done")

\* C32: `} i ; print` has been parsed to the end: the error on `}` skipped to behind
\* the semicolon, the error of the print was met on Eof, and both are returned
C32_Witness ==
    /\ probe.op = "parse" /\ probe.at = "done"
    /\ probe.tokens = << Token("RightBrace", "}"), TokenI, Token("Semicolon", ";"),
                         Token("Print", "print"), Eof >>
    /\ probe.failed = 5 /\ probe.current = 5 /\ probe.before = 4
    /\ Len(probe.errs) = 2
    /\ probe.result.r = "err"

----------------------------------------------------------------------------
(* A failed assignment *)

\* C33: a failed assignment leaves the environment unchanged: when the first line of a
\* session, `x = 1;` at top level or in blocks, has ended with the "undeclared
\* variable" error, the global frame binds no x, as before the assignment, and the
\* read `print x;` on a line of that session ends with an error
C33_FailedAssignChangesNothing ==
    /\ ( /\ Ended("Failing") /\ line.arg.kind = "assign" /\ lines = 1
          /\ result.r = "err"
          /\ result.msg.error = "Variable has not been declared" )
       => MapGet(interpreter.heap[1].values, "x") = None
    /\ ( /\ Ended("Failing") /\ line.arg.kind = "undeclared"
          /\ line.arg.place \in {"top", "block", "blocks"} )
       => result.r = "err"

----------------------------------------------------------------------------
(* The first return of an invocation *)

\* the positions before i of the history where the invocation with this slot executed
\* a `return`
ReturnsBefore(slot, i) == {j \in ReturnsAt(slot) : j < i}

\* C34: the value a call hands back is the value of the first `return` executed during
\* that invocation, and a `return` executed later in the same invocation never
\* replaces it: no `return` finds the slot of its invocation already signalled
C34_FirstReturnIsTheResult ==
    /\ \A i \in 1..Len(interpreter.trace) :
          /\ interpreter.trace[i].ev = "exit"
          /\ interpreter.trace[i].r = "ok"
          /\ ReturnsBefore(interpreter.trace[i].slot, i) # {}
          => interpreter.trace[i].v =
                interpreter.trace[CHOOSE j \in ReturnsBefore(interpreter.trace[i].slot, i) :
                                     \A k \in ReturnsBefore(interpreter.trace[i].slot, i) :
                                         j <= k].v
    /\ \A i \in 1..Len(interpreter.trace) :
          interpreter.trace[i].ev = "return" => interpreter.trace[i].before = None

----------------------------------------------------------------------------
(* Distances stay within the chain of frames *)

\* the events of the history that address a frame by a distance
Distanced ==
    {e \in Events : e.ev \in {"get", "assign"} /\ e.distance # None}

\* C35: in the run of a program the resolver has accepted, on a fresh interpreter, no
\* get or assign with a distance asks for a hop beyond the root frame: the frame
\* `distance` hops above the current one exists, it is the frame that was read or
\* written, and the run does not end with the fatal "deeper than the current
\* environment depth" or "too deep level"
C35_DistanceStaysInChain ==
    lines = 1 =>
       /\ \A e \in Distanced :
             /\ Hop(interpreter.heap, e.env, e.distance[1]) # 0
             /\ e.frame = Hop(interpreter.heap, e.env, e.distance[1])
       /\ result.r = "panic" =>
             result.msg.error \notin
                {"Tried to resolve a variable that was defined deeper than the current environment depth",
                 "Tried to define a variable in a too deep level"}

\* C35: a run on a fresh interpreter has read or written, one hop or more above the
\* current frame, the outermost frame below the root: the longest distance the
\* resolver gives in that chain of frames
C35_Witness ==
    /\ lines = 1
    /\ \E e \in Distanced :
          /\ e.distance[1] >= 1
          /\ e.frame # 0
          /\ interpreter.heap[e.frame].enclosing = 1

----------------------------------------------------------------------------
(* The scope stack of the resolver *)

\* how many of the first k entries of the log of the pass are begin_scope (end_scope)
Scopes(op, k) ==
    Cardinality({i \in 1..k : interpreter.stack[i].op = op})

\* C36: the scope stack of the resolver is balanced: a statement that has been
\* resolved successfully leaves the stack as deep as it found it, the stack is empty
\* after a whole program has been resolved, at no point of the pass have more scopes
\* been ended than begun, and end_scope never finds the stack empty
C36_ScopeStackIsBalanced ==
    /\ \A i \in 1..Len(interpreter.stack) :
          /\ ( interpreter.stack[i].op = "stmt" /\ interpreter.stack[i].r = "ok" )
             => interpreter.stack[i].after = interpreter.stack[i].before
          /\ interpreter.stack[i].op = "end" => interpreter.stack[i].depth > 0
          /\ interpreter.stack[i].op \in {"begin", "end"} =>
                interpreter.stack[i].depth = Scopes("begin", i - 1) - Scopes("end", i - 1)
          /\ Scopes("end", i) <= Scopes("begin", i)
    /\ phase = "resolved" =>
          Scopes("begin", Len(interpreter.stack)) = Scopes("end", Len(interpreter.stack))

\* C36: a program with a scope begun inside another one (a block or a function body
\* within a block or a function body) has been resolved, and every scope was ended
C36_Witness ==
    /\ phase = "resolved"
    /\ \E i \in 1..Len(interpreter.stack) :
          interpreter.stack[i].op = "begin" /\ interpreter.stack[i].depth >= 1
    /\ Scopes("end", Len(interpreter.stack)) >= 2

----------------------------------------------------------------------------
(* The resolver never aborts *)

\* C37: the resolver ends with success or with a ResolutionError for every
\* syntactically valid program and never aborts fatally; a Call whose callee is not a
\* plain variable (the result of another call, a grouping, an anonymous function) is
\* resolved like any other, by resolving its callee and its arguments, so the texts of
\* the callee suite pass the resolver and are run
C37_ResolverNeverAborts ==
    /\ result.r = "panic" => result.stage # "resolve"
    /\ ( line.name = "Called" /\ phase # "parsed" ) =>
          ~( result.r \in {"err", "panic"} /\ result.stage = "resolve" )

----------------------------------------------------------------------------
(* The number of arguments is checked first *)

\* the positions of the history where a callee has evaluated to a Callable of another
\* arity than the number of arguments of the call
MismatchesAt ==
    {j \in 1..Len(interpreter.trace) :
        /\ interpreter.trace[j].ev = "apply"
        /\ interpreter.trace[j].arity # interpreter.trace[j].argc}

\* C38: the arity check precedes the evaluation of the arguments: once a callee has
\* evaluated to a Callable of another arity than the number of arguments, no
\* expression is evaluated, nothing is read, assigned or defined, no function is
\* called and no statement is run before the error is reported, so the assignment
\* in an argument leaves g at 0 and the call in an argument prints nothing
C38_ArityCheckedBeforeArguments ==
    /\ \A j \in MismatchesAt : \A k \in j + 1..Len(interpreter.trace) :
          interpreter.trace[k].ev \in {"ret", "block", "exit"}
    /\ Ended("TooFewWithEffect") \/ Ended("TooManyWithEffect") =>
          /\ MismatchesAt # {}
          /\ \A e \in Events : e.ev # "assign"
          /\ MapGet(interpreter.heap[1].values, "g") = Some(Number(0))
    /\ Ended("TooFewWithCall") =>
          /\ MismatchesAt # {}
          /\ \A e \in Events : e.ev # "call"
          /\ interpreter.out = <<>>

\* C38: two(shout()) has failed on the number of arguments, shout was not called and
\* nothing was printed
C38_Witness ==
    /\ Ended("TooFewWithCall")
    /\ \E j \in MismatchesAt : interpreter.trace[j].name = "two"
    /\ result.r = "err"
    /\ result.msg.error = "Callable expected arguments but got"
    /\ interpreter.out = <<>>

----------------------------------------------------------------------------
(* Where the natives are bound *)

\* C39: the built-in natives are bound in the global frame only: a frame made for a
\* block or for a call (every frame but the first) binds no clock, none of the texts
\* defining one, so Environment::get of "clock" with distance 0 on such a frame
\* returns None
C39_NativesOnlyInGlobalFrame ==
    \A f \in 2..Len(interpreter.heap) :
        /\ "clock" \notin DOMAIN interpreter.heap[f].values
        /\ Get(interpreter.heap, f, "clock", Some(0)).v = None
====
